---- MODULE Spec2Model ----
(***************************************************************************)
(* Multi-player Elo scorekeeping application: the rating engine and the    *)
(* result validator (lib/elo: calculateMultiPlayerElo,                     *)
(* validateMatchResults), the local-storage manager (lib/storage), the     *)
(* match-submission workflow (MatchForm.onSubmit) and the page that holds  *)
(* the game form, the game list and the match form (app/page).             *)
(*                                                                         *)
(* Numbers.  The code computes in IEEE doubles.  Here ratings, positions   *)
(* and K-factors are integers, a score (expected or actual) is an integer  *)
(* number of millionths (Scale = 1.0), and every quotient is kept as an    *)
(* exact fraction until Math.round is applied.  The double rounding error  *)
(* of the code (below 1e-12 for the magnitudes used here) is not           *)
(* represented.                                                            *)
(***************************************************************************)
EXTENDS Integers, Sequences, FiniteSets, TLC

VARIABLES
    playerResults,  \* argument of the latest calculateMultiPlayerElo call
    config,         \* its config argument: [kFactor, defaultRating]
    results,        \* the array it returned
    pc,             \* "input": call not made yet, "done": call returned
    entries,        \* argument of the latest validateMatchResults call
    validation,     \* what it returned: [isValid, errors]
    games,          \* localStorage 'elo-app-games'
    players,        \* localStorage 'elo-app-players'
    matches,        \* localStorage 'elo-app-matches'
    eloRatings,     \* localStorage 'elo-app-elo-ratings'
    storageCall,    \* the latest direct StorageManager call: its writes, its outcome
    formGames,      \* MatchForm's games state, loaded when the form mounts
    formGameId,     \* MatchForm's gameId field
    selectedGame,   \* HomePage's selectedGame state
    toasts,         \* the toasts shown by the latest handler
    pageGames,      \* HomePage's games state, reloaded when refreshKey changes
    leaderboardGames,   \* Leaderboard's games state
    leaderboardGameId,  \* Leaderboard's selectedGameId state
    leaderboard,    \* Leaderboard's leaderboard state: the entries displayed
    nextId          \* the next fresh id of a game, a player and a match

engineVars == <<playerResults, config, results, pc>>

validatorVars == <<entries, validation>>

storageVars == <<games, players, matches, eloRatings>>

leaderboardVars == <<leaderboardGames, leaderboardGameId, leaderboard>>

pageVars == <<formGames, formGameId, selectedGame, toasts, pageGames,
              leaderboardGames, leaderboardGameId, leaderboard>>

vars == <<playerResults, config, results, pc, entries, validation,
          games, players, matches, eloRatings, storageCall,
          formGames, formGameId, selectedGame, toasts, pageGames,
          leaderboardGames, leaderboardGameId, leaderboard, nextId>>

----------------------------------------------------------------------------
(* Bounds of the model                                                     *)

\* largest number of participants of one engine call
MaxPlayers == 3

\* largest number of entries of one validateMatchResults call
MaxEntries == 3

\* names offered to validateMatchResults: a blank name, a name, the same
\* name in another case with a trailing blank, and two more names
EntryNames == { <<" ">>, <<"a", "l">>, <<"A", "l", " ">>, <<"b", "o">>, <<"c", "y">> }

\* current ratings offered to the engine: a negative synthetic rating, a
\* rating close to the floor, an ordinary rating, and the default 1500 with
\* a rating 300 below it
Ratings == {-300, 5, 120, 1200, 1500}

\* K-factors offered to the engine: zero, an odd one, the default 32
KFactors == {0, 3, 32, 33}

\* games created and matches recorded in one run of the application
MaxGames == 1

MaxMatches == 4

\* entries of one submitted match form
MaxFormPlayers == 2

\* matches recorded in one run of the submission workflow on its own, and
\* the sizes of the forms submitted there
MaxSubmissions == 2

FormSizes == {2, 3}

\* direct calls of StorageManager methods in one run of the storage manager
\* on its own, and the games stored when that run starts
MaxCalls == 2

MaxStoredGames == 2

\* player names typed into the rows of the match form, as sequences of
\* characters: the rows are filled with the players in a fixed order; the
\* second row may instead hold a name that is too short once trimmed
Names == << { <<"a", "l">> },
            { <<"b", "o">>, <<"b", " ">> },
            { <<"c", "y">> } >>

\* settings typed into the game form: the largest K and the smallest default
\* rating the form accepts
GameSettings == { [name |-> <<"G", "o", " ">>, kFactor |-> 100, defaultRating |-> 100] }

\* generateId: ids are opaque and unique, and an id is only ever compared
\* with ids of its own kind, so each kind is numbered on its own
FirstIds == [game |-> 1, player |-> 1, match |-> 1]


----------------------------------------------------------------------------
(* Arithmetic helpers                                                      *)

\* 1.0 as a fixed-point score
Scale == 1000000

\* null and undefined: no record, no game, no result yet
Null == [none |-> TRUE]

\* the empty id '' of a form field that holds no game
NoGameId == 0

\* no StorageManager method has been called directly
NoStorageCall ==
    [number |-> 0, method |-> "none", args |-> Null, writes |-> << >>,
     thrown |-> FALSE, returned |-> Null]

Max(a, b) == IF a >= b THEN a ELSE b

Abs(a) == IF a >= 0 THEN a ELSE -a

\* Math.round of the fraction num/den (den > 0): the nearest integer, a tie
\* going towards +Infinity, i.e. floor(num/den + 1/2)
MathRound(num, den) == (2 * num + den) \div (2 * den)

\* Math.round of the sum whole + num/den of an integer and a fraction
\* (den > 0): the sum is (whole + q) + r/den with q the floor and r the
\* remainder of num/den, and it rounds up when r/den >= 1/2
MathRoundSum(whole, num, den) ==
    (whole + num \div den) + (IF 2 * (num % den) >= den THEN 1 ELSE 0)

----------------------------------------------------------------------------
(* lib/elo                                                                 *)

\* 1 / (1 + 10^(d/400)) in millionths, for d = ratingB - ratingA from
\* -800 to 800 (entry d + 801), each entry rounded to the nearest millionth
ExpectedScoreTable == <<
    990099, 990042, 989986, 989928, 989871, 989813, 989755, 989696, 989637, 989578, 989518, 989459,
    989398, 989338, 989277, 989216, 989154, 989092, 989030, 988967, 988904, 988841, 988777, 988713,
    988649, 988584, 988519, 988453, 988387, 988321, 988255, 988188, 988120, 988052, 987984, 987916,
    987847, 987778, 987708, 987638, 987567, 987496, 987425, 987353, 987281, 987209, 987136, 987063,
    986989, 986915, 986840, 986765, 986690, 986614, 986538, 986461, 986384, 986307, 986229, 986150,
    986071, 985992, 985912, 985832, 985752, 985670, 985589, 985507, 985425, 985342, 985258, 985174,
    985090, 985005, 984920, 984834, 984748, 984661, 984574, 984487, 984398, 984310, 984221, 984131,
    984041, 983950, 983859, 983767, 983675, 983582, 983489, 983395, 983301, 983206, 983111, 983015,
    982919, 982822, 982724, 982626, 982528, 982429, 982329, 982229, 982128, 982027, 981925, 981823,
    981720, 981616, 981512, 981407, 981302, 981196, 981089, 980982, 980874, 980766, 980657, 980548,
    980438, 980327, 980216, 980104, 979991, 979878, 979764, 979650, 979535, 979419, 979303, 979186,
    979068, 978950, 978831, 978711, 978591, 978470, 978348, 978226, 978103, 977979, 977855, 977730,
    977604, 977478, 977351, 977223, 977095, 976965, 976836, 976705, 976574, 976442, 976309, 976175,
    976041, 975906, 975770, 975634, 975497, 975359, 975220, 975080, 974940, 974799, 974657, 974515,
    974371, 974227, 974082, 973937, 973790, 973643, 973495, 973346, 973196, 973045, 972894, 972742,
    972589, 972435, 972280, 972125, 971968, 971811, 971653, 971494, 971334, 971173, 971012, 970849,
    970686, 970522, 970356, 970190, 970023, 969856, 969687, 969517, 969347, 969175, 969003, 968829,
    968655, 968480, 968303, 968126, 967948, 967769, 967589, 967408, 967226, 967043, 966859, 966674,
    966488, 966301, 966113, 965924, 965734, 965543, 965351, 965158, 964964, 964769, 964573, 964376,
    964177, 963978, 963778, 963576, 963374, 963170, 962965, 962759, 962552, 962344, 962135, 961925,
    961713, 961501, 961287, 961073, 960857, 960640, 960421, 960202, 959981, 959760, 959537, 959313,
    959087, 958861, 958633, 958404, 958174, 957943, 957710, 957477, 957242, 957005, 956768, 956529,
    956289, 956048, 955805, 955562, 955316, 955070, 954822, 954573, 954323, 954072, 953819, 953565,
    953309, 953052, 952794, 952534, 952273, 952011, 951747, 951482, 951216, 950948, 950679, 950408,
    950136, 949863, 949588, 949312, 949034, 948755, 948474, 948192, 947909, 947624, 947337, 947049,
    946760, 946469, 946176, 945883, 945587, 945290, 944992, 944692, 944390, 944087, 943782, 943476,
    943168, 942859, 942548, 942236, 941922, 941606, 941289, 940970, 940649, 940327, 940003, 939678,
    939350, 939022, 938691, 938359, 938025, 937690, 937353, 937014, 936673, 936331, 935987, 935641,
    935293, 934944, 934593, 934240, 933886, 933530, 933172, 932812, 932450, 932086, 931721, 931354,
    930985, 930614, 930242, 929867, 929491, 929113, 928733, 928351, 927967, 927581, 927193, 926804,
    926412, 926019, 925624, 925226, 924827, 924426, 924023, 923618, 923211, 922802, 922391, 921977,
    921562, 921145, 920726, 920305, 919882, 919456, 919029, 918600, 918168, 917735, 917299, 916861,
    916421, 915979, 915535, 915089, 914641, 914190, 913738, 913283, 912826, 912367, 911905, 911442,
    910976, 910508, 910038, 909566, 909091, 908614, 908135, 907654, 907170, 906684, 906196, 905705,
    905213, 904718, 904220, 903720, 903218, 902714, 902207, 901698, 901187, 900673, 900157, 899638,
    899117, 898594, 898068, 897540, 897010, 896477, 895941, 895403, 894863, 894320, 893775, 893227,
    892677, 892124, 891569, 891011, 890451, 889888, 889323, 888755, 888184, 887611, 887036, 886458,
    885877, 885294, 884708, 884119, 883528, 882935, 882338, 881739, 881138, 880534, 879927, 879317,
    878705, 878090, 877473, 876852, 876229, 875604, 874975, 874344, 873710, 873074, 872435, 871793,
    871148, 870500, 869850, 869197, 868541, 867882, 867221, 866557, 865890, 865220, 864547, 863871,
    863193, 862512, 861828, 861141, 860451, 859759, 859063, 858365, 857663, 856959, 856252, 855542,
    854829, 854113, 853395, 852673, 851948, 851221, 850490, 849757, 849020, 848281, 847539, 846793,
    846045, 845294, 844540, 843782, 843022, 842259, 841492, 840723, 839951, 839175, 838397, 837615,
    836831, 836043, 835253, 834459, 833662, 832863, 832060, 831254, 830445, 829633, 828818, 827999,
    827178, 826354, 825526, 824695, 823862, 823025, 822185, 821341, 820495, 819646, 818793, 817938,
    817079, 816217, 815352, 814484, 813612, 812738, 811860, 810979, 810095, 809208, 808318, 807424,
    806528, 805628, 804725, 803819, 802909, 801997, 801081, 800162, 799240, 798315, 797386, 796455,
    795520, 794582, 793641, 792696, 791749, 790798, 789844, 788887, 787927, 786963, 785997, 785027,
    784054, 783077, 782098, 781115, 780130, 779141, 778148, 777153, 776155, 775153, 774148, 773140,
    772129, 771114, 770097, 769076, 768052, 767025, 765995, 764961, 763925, 762885, 761842, 760796,
    759747, 758695, 757639, 756581, 755519, 754454, 753386, 752315, 751241, 750163, 749083, 748000,
    746913, 745823, 744730, 743635, 742536, 741434, 740328, 739220, 738109, 736995, 735877, 734757,
    733634, 732507, 731378, 730245, 729110, 727972, 726830, 725686, 724538, 723388, 722235, 721078,
    719919, 718757, 717592, 716424, 715253, 714079, 712902, 711723, 710540, 709355, 708166, 706975,
    705781, 704585, 703385, 702183, 700977, 699769, 698559, 697345, 696129, 694910, 693688, 692463,
    691236, 690006, 688774, 687538, 686300, 685060, 683816, 682570, 681322, 680071, 678817, 677561,
    676302, 675040, 673776, 672510, 671241, 669969, 668695, 667418, 666139, 664858, 663574, 662288,
    660999, 659708, 658415, 657119, 655821, 654520, 653217, 651912, 650605, 649295, 647983, 646669,
    645352, 644034, 642713, 641390, 640065, 638738, 637408, 636077, 634743, 633408, 632070, 630730,
    629389, 628045, 626699, 625351, 624002, 622650, 621297, 619941, 618584, 617225, 615864, 614501,
    613137, 611771, 610402, 609033, 607661, 606288, 604913, 603536, 602158, 600778, 599397, 598014,
    596629, 595243, 593855, 592466, 591076, 589684, 588290, 586895, 585499, 584101, 582702, 581301,
    579900, 578497, 577092, 575687, 574280, 572872, 571463, 570053, 568641, 567229, 565815, 564400,
    562985, 561568, 560150, 558731, 557312, 555891, 554469, 553047, 551624, 550199, 548774, 547349,
    545922, 544495, 543066, 541638, 540208, 538778, 537347, 535916, 534484, 533051, 531618, 530185,
    528751, 527316, 525881, 524445, 523010, 521573, 520137, 518700, 517263, 515825, 514387, 512949,
    511511, 510072, 508634, 507195, 505756, 504317, 502878, 501439, 500000, 498561, 497122, 495683,
    494244, 492805, 491366, 489928, 488489, 487051, 485613, 484175, 482737, 481300, 479863, 478427,
    476990, 475555, 474119, 472684, 471249, 469815, 468382, 466949, 465516, 464084, 462653, 461222,
    459792, 458362, 456934, 455505, 454078, 452651, 451226, 449801, 448376, 446953, 445531, 444109,
    442688, 441269, 439850, 438432, 437015, 435600, 434185, 432771, 431359, 429947, 428537, 427128,
    425720, 424313, 422908, 421503, 420100, 418699, 417298, 415899, 414501, 413105, 411710, 410316,
    408924, 407534, 406145, 404757, 403371, 401986, 400603, 399222, 397842, 396464, 395087, 393712,
    392339, 390967, 389598, 388229, 386863, 385499, 384136, 382775, 381416, 380059, 378703, 377350,
    375998, 374649, 373301, 371955, 370611, 369270, 367930, 366592, 365257, 363923, 362592, 361262,
    359935, 358610, 357287, 355966, 354648, 353331, 352017, 350705, 349395, 348088, 346783, 345480,
    344179, 342881, 341585, 340292, 339001, 337712, 336426, 335142, 333861, 332582, 331305, 330031,
    328759, 327490, 326224, 324960, 323698, 322439, 321183, 319929, 318678, 317430, 316184, 314940,
    313700, 312462, 311226, 309994, 308764, 307537, 306312, 305090, 303871, 302655, 301441, 300231,
    299023, 297817, 296615, 295415, 294219, 293025, 291834, 290645, 289460, 288277, 287098, 285921,
    284747, 283576, 282408, 281243, 280081, 278922, 277765, 276612, 275462, 274314, 273170, 272028,
    270890, 269755, 268622, 267493, 266366, 265243, 264123, 263005, 261891, 260780, 259672, 258566,
    257464, 256365, 255270, 254177, 253087, 252000, 250917, 249837, 248759, 247685, 246614, 245546,
    244481, 243419, 242361, 241305, 240253, 239204, 238158, 237115, 236075, 235039, 234005, 232975,
    231948, 230924, 229903, 228886, 227871, 226860, 225852, 224847, 223845, 222847, 221852, 220859,
    219870, 218885, 217902, 216923, 215946, 214973, 214003, 213037, 212073, 211113, 210156, 209202,
    208251, 207304, 206359, 205418, 204480, 203545, 202614, 201685, 200760, 199838, 198919, 198003,
    197091, 196181, 195275, 194372, 193472, 192576, 191682, 190792, 189905, 189021, 188140, 187262,
    186388, 185516, 184648, 183783, 182921, 182062, 181207, 180354, 179505, 178659, 177815, 176975,
    176138, 175305, 174474, 173646, 172822, 172001, 171182, 170367, 169555, 168746, 167940, 167137,
    166338, 165541, 164747, 163957, 163169, 162385, 161603, 160825, 160049, 159277, 158508, 157741,
    156978, 156218, 155460, 154706, 153955, 153207, 152461, 151719, 150980, 150243, 149510, 148779,
    148052, 147327, 146605, 145887, 145171, 144458, 143748, 143041, 142337, 141635, 140937, 140241,
    139549, 138859, 138172, 137488, 136807, 136129, 135453, 134780, 134110, 133443, 132779, 132118,
    131459, 130803, 130150, 129500, 128852, 128207, 127565, 126926, 126290, 125656, 125025, 124396,
    123771, 123148, 122527, 121910, 121295, 120683, 120073, 119466, 118862, 118261, 117662, 117065,
    116472, 115881, 115292, 114706, 114123, 113542, 112964, 112389, 111816, 111245, 110677, 110112,
    109549, 108989, 108431, 107876, 107323, 106773, 106225, 105680, 105137, 104597, 104059, 103523,
    102990, 102460, 101932, 101406, 100883, 100362, 99843, 99327, 98813, 98302, 97793, 97286,
    96782, 96280, 95780, 95282, 94787, 94295, 93804, 93316, 92830, 92346, 91865, 91386,
    90909, 90434, 89962, 89492, 89024, 88558, 88095, 87633, 87174, 86717, 86262, 85810,
    85359, 84911, 84465, 84021, 83579, 83139, 82701, 82265, 81832, 81400, 80971, 80544,
    80118, 79695, 79274, 78855, 78438, 78023, 77609, 77198, 76789, 76382, 75977, 75574,
    75173, 74774, 74376, 73981, 73588, 73196, 72807, 72419, 72033, 71649, 71267, 70887,
    70509, 70133, 69758, 69386, 69015, 68646, 68279, 67914, 67550, 67188, 66828, 66470,
    66114, 65760, 65407, 65056, 64707, 64359, 64013, 63669, 63327, 62986, 62647, 62310,
    61975, 61641, 61309, 60978, 60650, 60322, 59997, 59673, 59351, 59030, 58711, 58394,
    58078, 57764, 57452, 57141, 56832, 56524, 56218, 55913, 55610, 55308, 55008, 54710,
    54413, 54117, 53824, 53531, 53240, 52951, 52663, 52376, 52091, 51808, 51526, 51245,
    50966, 50688, 50412, 50137, 49864, 49592, 49321, 49052, 48784, 48518, 48253, 47989,
    47727, 47466, 47206, 46948, 46691, 46435, 46181, 45928, 45677, 45427, 45178, 44930,
    44684, 44438, 44195, 43952, 43711, 43471, 43232, 42995, 42758, 42523, 42290, 42057,
    41826, 41596, 41367, 41139, 40913, 40687, 40463, 40240, 40019, 39798, 39579, 39360,
    39143, 38927, 38713, 38499, 38287, 38075, 37865, 37656, 37448, 37241, 37035, 36830,
    36626, 36424, 36222, 36022, 35823, 35624, 35427, 35231, 35036, 34842, 34649, 34457,
    34266, 34076, 33887, 33699, 33512, 33326, 33141, 32957, 32774, 32592, 32411, 32231,
    32052, 31874, 31697, 31520, 31345, 31171, 30997, 30825, 30653, 30483, 30313, 30144,
    29977, 29810, 29644, 29478, 29314, 29151, 28988, 28827, 28666, 28506, 28347, 28189,
    28032, 27875, 27720, 27565, 27411, 27258, 27106, 26955, 26804, 26654, 26505, 26357,
    26210, 26063, 25918, 25773, 25629, 25485, 25343, 25201, 25060, 24920, 24780, 24641,
    24503, 24366, 24230, 24094, 23959, 23825, 23691, 23558, 23426, 23295, 23164, 23035,
    22905, 22777, 22649, 22522, 22396, 22270, 22145, 22021, 21897, 21774, 21652, 21530,
    21409, 21289, 21169, 21050, 20932, 20814, 20697, 20581, 20465, 20350, 20236, 20122,
    20009, 19896, 19784, 19673, 19562, 19452, 19343, 19234, 19126, 19018, 18911, 18804,
    18698, 18593, 18488, 18384, 18280, 18177, 18075, 17973, 17872, 17771, 17671, 17571,
    17472, 17374, 17276, 17178, 17081, 16985, 16889, 16794, 16699, 16605, 16511, 16418,
    16325, 16233, 16141, 16050, 15959, 15869, 15779, 15690, 15602, 15513, 15426, 15339,
    15252, 15166, 15080, 14995, 14910, 14826, 14742, 14658, 14575, 14493, 14411, 14330,
    14248, 14168, 14088, 14008, 13929, 13850, 13771, 13693, 13616, 13539, 13462, 13386,
    13310, 13235, 13160, 13085, 13011, 12937, 12864, 12791, 12719, 12647, 12575, 12504,
    12433, 12362, 12292, 12222, 12153, 12084, 12016, 11948, 11880, 11812, 11745, 11679,
    11613, 11547, 11481, 11416, 11351, 11287, 11223, 11159, 11096, 11033, 10970, 10908,
    10846, 10784, 10723, 10662, 10602, 10541, 10482, 10422, 10363, 10304, 10245, 10187,
    10129, 10072, 10014, 9958, 9901
>>

\* variant: the two ratings taken in the wrong order
calculateExpectedScore_Swapped(ratingA, ratingB) ==
    ExpectedScoreTable[(ratingA - ratingB) + (Len(ExpectedScoreTable) + 1) \div 2]

\* calculateExpectedScore(ratingA, ratingB), in millionths
calculateExpectedScore(ratingA, ratingB) ==
    ExpectedScoreTable[(ratingB - ratingA) + (Len(ExpectedScoreTable) + 1) \div 2]

\* variant: a tie scored as a win
calculateActualScore_TieWins(playerPosition, opponentPosition) ==
    IF playerPosition <= opponentPosition THEN Scale ELSE 0

\* variant: a tie scored as a loss
calculateActualScore_TieLoses(playerPosition, opponentPosition) ==
    IF playerPosition < opponentPosition THEN Scale ELSE 0

\* calculateActualScore(playerPosition, opponentPosition), in millionths
calculateActualScore(playerPosition, opponentPosition) ==
    IF playerPosition < opponentPosition THEN Scale
    ELSE IF playerPosition = opponentPosition THEN Scale \div 2
    ELSE 0

\* variant: the player's own entry is not skipped
RECURSIVE OpponentTotals_NoSkip(_, _, _)
OpponentTotals_NoSkip(player, list, n) ==
    IF n = 0
    THEN [totalExpectedScore |-> 0, totalActualScore |-> 0, totalOpponents |-> 0]
    ELSE LET rest == OpponentTotals_NoSkip(player, list, n - 1)
             opponent == list[n]
         IN  [totalExpectedScore |-> rest.totalExpectedScore
                  + calculateExpectedScore(player.currentRating, opponent.currentRating),
              totalActualScore |-> rest.totalActualScore
                  + calculateActualScore(player.position, opponent.position),
              totalOpponents |-> rest.totalOpponents + 1]

\* the inner loop of calculateMultiPlayerElo for one player: the running sums
\* over playerResults[1..n], skipping entries that carry the player's own id
RECURSIVE OpponentTotals(_, _, _)
OpponentTotals(player, list, n) ==
    IF n = 0
    THEN [totalExpectedScore |-> 0, totalActualScore |-> 0, totalOpponents |-> 0]
    ELSE LET rest == OpponentTotals(player, list, n - 1)
             opponent == list[n]
         IN  IF player.playerId = opponent.playerId
             THEN rest
             ELSE [totalExpectedScore |-> rest.totalExpectedScore
                       + calculateExpectedScore(player.currentRating, opponent.currentRating),
                   totalActualScore |-> rest.totalActualScore
                       + calculateActualScore(player.position, opponent.position),
                   totalOpponents |-> rest.totalOpponents + 1]

\* variant: a kFactor of 0 (falsy) replaced by the default of 32
ChangeNum_DefaultK(player, list, kFactor) ==
    LET t == OpponentTotals(player, list, Len(list))
    IN  (IF kFactor = 0 THEN 32 ELSE kFactor) * (t.totalActualScore - t.totalExpectedScore)

\* the unrounded ratingChange of one player as a fraction num/den:
\* kFactor * (totalActualScore/totalOpponents - totalExpectedScore/totalOpponents)
ChangeNum(player, list, kFactor) ==
    LET t == OpponentTotals(player, list, Len(list))
    IN  kFactor * (t.totalActualScore - t.totalExpectedScore)

ChangeDen(player, list) ==
    OpponentTotals(player, list, Len(list)).totalOpponents * Scale

\* variant: the new rating is not clamped at 0
EloResult_NoClamp(player, list, kFactor) ==
    IF OpponentTotals(player, list, Len(list)).totalOpponents = 0
    THEN [playerId |-> player.playerId,
          previousRating |-> player.currentRating,
          newRating |-> player.currentRating,
          ratingChange |-> 0]
    ELSE LET num == ChangeNum(player, list, kFactor)
             den == ChangeDen(player, list)
         IN  [playerId |-> player.playerId,
              previousRating |-> player.currentRating,
              newRating |-> MathRoundSum(player.currentRating, num, den),
              ratingChange |-> MathRound(num, den)]

\* the body of the outer loop of calculateMultiPlayerElo: the result pushed
\* for one player
EloResult(player, list, kFactor) ==
    IF OpponentTotals(player, list, Len(list)).totalOpponents = 0
    THEN [playerId |-> player.playerId,
          previousRating |-> player.currentRating,
          newRating |-> player.currentRating,
          ratingChange |-> 0]
    ELSE LET num == ChangeNum(player, list, kFactor)
             den == ChangeDen(player, list)
             newRating == MathRoundSum(player.currentRating, num, den)
         IN  [playerId |-> player.playerId,
              previousRating |-> player.currentRating,
              newRating |-> Max(0, newRating),
              ratingChange |-> MathRound(num, den)]

\* variant: results are collected in reverse order
calculateMultiPlayerElo_Reversed(list, cfg) ==
    [i \in 1..Len(list) |-> EloResult(list[Len(list) + 1 - i], list, cfg.kFactor)]

\* calculateMultiPlayerElo(playerResults, config): one result per player, in
\* input order
calculateMultiPlayerElo(list, cfg) ==
    [i \in 1..Len(list) |-> EloResult(list[i], list, cfg.kFactor)]

----------------------------------------------------------------------------
(* Inputs of an engine call                                                *)

\* positions that pass validateMatchResults: every position is one more than
\* the number of strictly better entries (ties share the better rank)
IsRanking(pos) ==
    \A i \in DOMAIN pos :
        pos[i] = 1 + Cardinality({j \in DOMAIN pos : pos[j] < pos[i]})

\* player ids up to renaming: the first participant is "p1", and each later
\* one repeats an earlier id (malformed input) or takes the next fresh one
IsIdPattern(ids) ==
    \A i \in DOMAIN ids :
        ids[i] <= 1 + Cardinality({ids[j] : j \in 1..(i - 1)})

IdPatterns(n) == {f \in [1..n -> 1..n] : IsIdPattern(f)}

Rankings(n) == {f \in [1..n -> 1..n] : IsRanking(f)}

\* rating vectors whose pairwise differences ExpectedScoreTable covers
InTableRange(rat) ==
    \A i, j \in DOMAIN rat :
        Abs(rat[i] - rat[j]) <= (Len(ExpectedScoreTable) - 1) \div 2

RatingVectors(n) == {f \in [1..n -> Ratings] : InTableRange(f)}

EngineConfigs == { [kFactor |-> k, defaultRating |-> 1500] : k \in KFactors }

----------------------------------------------------------------------------
(* lib/elo: calculateWinRate, getRatingTier; components/Leaderboard        *)

\* calculateWinRate: Math.round of the points (a draw counts one half) per
\* game, as a percentage; 0 without games
calculateWinRate(wins, losses, draws) ==
    LET totalGames == wins + losses + draws
    IN  IF totalGames = 0 THEN 0
        ELSE MathRound((2 * wins + draws) * 100, 2 * totalGames)

\* getRatingTier: the name of the highest tier whose minRating the rating
\* reaches, the lowest tier below all of them
getRatingTier(rating) ==
    IF rating >= 2200 THEN "grandmaster"
    ELSE IF rating >= 2000 THEN "master"
    ELSE IF rating >= 1800 THEN "diamond"
    ELSE IF rating >= 1600 THEN "platinum"
    ELSE IF rating >= 1400 THEN "gold"
    ELSE IF rating >= 1200 THEN "silver"
    ELSE "bronze"

\* Array.prototype.sort((a, b) => b.rating - a.rating) on list[1..n]: by
\* descending rating, entries of equal rating in their original order
RECURSIVE SortByRating(_, _)
SortByRating(list, n) ==
    IF n = 0 THEN << >>
    ELSE LET sorted == SortByRating(list, n - 1)
             ahead == Cardinality({i \in 1..Len(sorted) :
                                      sorted[i].rating >= list[n].rating})
         IN  SubSeq(sorted, 1, ahead) \o <<list[n]>>
                 \o SubSeq(sorted, ahead + 1, Len(sorted))

\* Leaderboard.loadLeaderboard(gameId): one entry per rating record of the
\* game whose player is stored, sorted by descending rating
loadLeaderboard(ps, rs, gameId) ==
    LET OfGame(r) == r.gameId = gameId /\ \E i \in 1..Len(ps) : ps[i].id = r.playerId
        gameRatings == SelectSeq(rs, OfGame)
        Entry(rating) ==
            LET player == ps[CHOOSE i \in 1..Len(ps) :
                                /\ ps[i].id = rating.playerId
                                /\ \A j \in 1..(i - 1) : ps[j].id # rating.playerId]
            IN  [playerId |-> player.id, playerName |-> player.name,
                 rating |-> rating.rating, gamesPlayed |-> rating.gamesPlayed,
                 wins |-> rating.wins, losses |-> rating.losses,
                 draws |-> rating.draws,
                 winRate |-> calculateWinRate(rating.wins, rating.losses, rating.draws),
                 tier |-> getRatingTier(rating.rating)]
        leaderboardData == [i \in 1..Len(gameRatings) |-> Entry(gameRatings[i])]
    IN  SortByRating(leaderboardData, Len(leaderboardData))

\* the game the Leaderboard shows once it has mounted without a selection:
\* the first stored game, if there is one
FirstGameId(gs) == IF Len(gs) > 0 THEN gs[1].id ELSE NoGameId

\* the entries the Leaderboard displays for the id it holds
LeaderboardOf(ps, rs, gameId) ==
    IF gameId # NoGameId THEN loadLeaderboard(ps, rs, gameId) ELSE << >>

----------------------------------------------------------------------------
(* The engine as a state machine: an input is chosen, then the call is made *)

\* nothing stored, no storage call made
EmptyStorage ==
    /\ games = << >> /\ players = << >> /\ matches = << >> /\ eloRatings = << >>
    /\ storageCall = NoStorageCall
    /\ nextId = FirstIds

\* the page as it is once loaded: the page, the form and the leaderboard
\* have read the stored games, no game is selected, no toast is shown, and
\* the leaderboard shows the first stored game
PageLoaded ==
    /\ formGames = games
    /\ formGameId = NoGameId
    /\ selectedGame = Null
    /\ toasts = << >>
    /\ pageGames = games
    /\ leaderboardGames = games
    /\ leaderboardGameId = FirstGameId(games)
    /\ leaderboard = LeaderboardOf(players, eloRatings, FirstGameId(games))

NoEngineCall ==
    /\ playerResults = << >>
    /\ config = [kFactor |-> 0, defaultRating |-> 0]
    /\ results = << >>
    /\ pc = "input"

NoValidatorCall == entries = << >> /\ validation = Null

InitElo ==
    /\ EmptyStorage /\ PageLoaded /\ NoValidatorCall
    /\ \E n \in 0..MaxPlayers :
         \E ids \in IdPatterns(n), pos \in Rankings(n), rat \in RatingVectors(n) :
            playerResults = [i \in 1..n |->
                [playerId |-> ids[i], position |-> pos[i], currentRating |-> rat[i]]]
    /\ config \in EngineConfigs
    /\ results = << >>
    /\ pc = "input"

Calculate ==
    /\ pc = "input"
    /\ results' = calculateMultiPlayerElo(playerResults, config)
    /\ pc' = "done"
    /\ UNCHANGED <<playerResults, config>>
    /\ UNCHANGED <<validatorVars, storageVars, storageCall, pageVars, nextId>>

NextElo == Calculate

SpecElo == InitElo /\ [][NextElo]_vars

----------------------------------------------------------------------------
(* Strings: a string is a sequence of one-character strings                *)

\* String.prototype.toLowerCase on one character of the model's alphabet
LowerChar(c) ==
    CASE c = "A" -> "a"
      [] c = "B" -> "b"
      [] c = "G" -> "g"
      [] OTHER -> c

\* variant: the case is left as it is
ToLowerCase_Unchanged(str) == str

ToLowerCase(str) == [i \in 1..Len(str) |-> LowerChar(str[i])]

RECURSIVE TrimStart(_)
TrimStart(str) ==
    IF str # << >> /\ Head(str) = " " THEN TrimStart(Tail(str)) ELSE str

RECURSIVE TrimEnd(_)
TrimEnd(str) ==
    IF str # << >> /\ str[Len(str)] = " "
    THEN TrimEnd(SubSeq(str, 1, Len(str) - 1))
    ELSE str

\* String.prototype.trim
Trim(str) == TrimEnd(TrimStart(str))

\* isValidPlayerName: 2 to 20 characters after trimming, all of them
\* letters, digits, '_' or '-'
isValidPlayerName(name) ==
    LET trimmedName == Trim(name)
    IN  /\ Len(trimmedName) >= 2
        /\ Len(trimmedName) <= 20
        /\ \A i \in 1..Len(trimmedName) : trimmedName[i] # " "

----------------------------------------------------------------------------
(* lib/elo: validateMatchResults                                           *)

\* variant: a tie group is taken to use up one rank only
RECURSIVE ContiguityBroken_NoTies(_, _, _, _)
ContiguityBroken_NoTies(positions, pos, expectedNextPosition, maxPosition) ==
    IF pos > maxPosition THEN FALSE
    ELSE LET count == Cardinality({i \in DOMAIN positions : positions[i] = pos})
         IN  IF count > 0
             THEN IF pos # expectedNextPosition THEN TRUE
                  ELSE ContiguityBroken_NoTies(positions, pos + 1, pos + 1, maxPosition)
             ELSE ContiguityBroken_NoTies(positions, pos + 1, expectedNextPosition, maxPosition)

\* the contiguity loop: TRUE iff it pushes the error, walking pos upwards
\* to maxPosition with the running expectedNextPosition
RECURSIVE ContiguityBroken(_, _, _, _)
ContiguityBroken(positions, pos, expectedNextPosition, maxPosition) ==
    IF pos > maxPosition THEN FALSE
    ELSE LET count == Cardinality({i \in DOMAIN positions : positions[i] = pos})
         IN  IF count > 0
             THEN IF pos # expectedNextPosition THEN TRUE
                  ELSE ContiguityBroken(positions, pos + 1, pos + count, maxPosition)
             ELSE ContiguityBroken(positions, pos + 1, expectedNextPosition, maxPosition)

\* the errors array of validateMatchResults(playerResults) for entries
\* [playerName, position]: the messages pushed, in the order of the checks
ValidationErrors(list) ==
    LET n == Len(list)
        playerNames == [i \in 1..n |-> ToLowerCase(Trim(list[i].playerName))]
        uniqueNames == {playerNames[i] : i \in 1..n}
        emptyNames == {i \in 1..n : Trim(list[i].playerName) = << >>}
        positions == [i \in 1..n |-> list[i].position]
        validPositions == \A i \in 1..n : positions[i] >= 1 /\ positions[i] <= n
        \* Math.min and Math.max of no arguments are +Infinity and -Infinity
        minIsOne == n > 0 /\ (\A i \in 1..n : positions[i] >= 1)
                          /\ (\E i \in 1..n : positions[i] = 1)
        maxPosition == IF n = 0 THEN 0
                       ELSE CHOOSE m \in {positions[i] : i \in 1..n} :
                                \A i \in 1..n : positions[i] <= m
        errors ==
            (IF n < 2 THEN <<"at least 2 players">> ELSE << >>)
            \o (IF n # Cardinality(uniqueNames) THEN <<"duplicate names">> ELSE << >>)
            \o (IF emptyNames # {} THEN <<"empty name">> ELSE << >>)
            \o (IF ~validPositions THEN <<"position out of range">> ELSE << >>)
            \o (IF ~minIsOne THEN <<"must start from 1">> ELSE << >>)
            \o (IF ContiguityBroken(positions, 1, 1, maxPosition)
                THEN <<"not contiguous">> ELSE << >>)
    IN  errors

\* variant: the validation stops at the first failed check
validateMatchResults_FailFast(list) ==
    LET errors == ValidationErrors(list)
    IN  [isValid |-> errors = << >>,
         errors |-> IF errors = << >> THEN << >> ELSE <<Head(errors)>>]

\* validateMatchResults(playerResults)
validateMatchResults(list) ==
    LET errors == ValidationErrors(list)
    IN  [isValid |-> Len(errors) = 0, errors |-> errors]

----------------------------------------------------------------------------
(* The validator as a state machine: an input is chosen, then the call is  *)
(* made                                                                    *)

\* entries of any names and of positions from 0 to one past their number
InitValidate ==
    /\ EmptyStorage /\ PageLoaded /\ NoEngineCall
    /\ \E n \in 0..MaxEntries :
         entries \in [1..n -> [playerName : EntryNames, position : 0..(n + 1)]]
    /\ validation = Null

Validate ==
    /\ validation = Null
    /\ validation' = validateMatchResults(entries)
    /\ UNCHANGED entries
    /\ UNCHANGED <<engineVars, storageVars, storageCall, pageVars, nextId>>

NextValidate == Validate

SpecValidate == InitValidate /\ [][NextValidate]_vars

----------------------------------------------------------------------------
(* lib/storage: StorageManager                                             *)

\* Array.prototype.find: the first element satisfying Test, or Null
FindFirst(list, Test(_)) ==
    IF \E i \in 1..Len(list) : Test(list[i])
    THEN list[CHOOSE i \in 1..Len(list) :
                /\ Test(list[i])
                /\ \A j \in 1..(i - 1) : ~Test(list[j])]
    ELSE Null

\* addGame: the games collection after the push (the new game has id `id`)
addGame(gs, gameData, id) ==
    Append(gs, [id |-> id, name |-> gameData.name,
                kFactor |-> gameData.kFactor,
                defaultRating |-> gameData.defaultRating])

\* getPlayerByName / the lookup of addPlayer: case-insensitive, untrimmed
existingPlayer(ps, name) ==
    LET SameName(p) == ToLowerCase(p.name) = ToLowerCase(name)
    IN  FindFirst(ps, SameName)

\* addPlayer(name): the player returned
addPlayerResult(ps, name, id) ==
    IF existingPlayer(ps, name) # Null
    THEN existingPlayer(ps, name)
    ELSE [id |-> id, name |-> Trim(name)]

\* addPlayer(name): the players collection afterwards
addPlayer(ps, name, id) ==
    IF existingPlayer(ps, name) # Null
    THEN ps
    ELSE Append(ps, [id |-> id, name |-> Trim(name)])

\* getPlayerRating(playerId, gameId)
getPlayerRating(rs, playerId, gameId) ==
    LET Same(r) == r.playerId = playerId /\ r.gameId = gameId
    IN  FindFirst(rs, Same)

\* variant: the record is appended even if the pair has one already
updatePlayerRating_AppendOnly(rs, playerId, gameId, updates) ==
    Append(rs, [playerId |-> playerId, gameId |-> gameId,
                rating |-> updates.rating,
                gamesPlayed |-> updates.gamesPlayed,
                wins |-> updates.wins,
                losses |-> updates.losses,
                draws |-> updates.draws])

\* updatePlayerRating(playerId, gameId, updates) with updates carrying
\* rating, gamesPlayed, wins, losses and draws: the ratings collection
\* afterwards (the defaults of a new record are all overwritten by updates)
updatePlayerRating(rs, playerId, gameId, updates) ==
    LET record == [playerId |-> playerId, gameId |-> gameId,
                   rating |-> updates.rating,
                   gamesPlayed |-> updates.gamesPlayed,
                   wins |-> updates.wins,
                   losses |-> updates.losses,
                   draws |-> updates.draws]
    IN  IF getPlayerRating(rs, playerId, gameId) # Null
        THEN LET existingRatingIndex ==
                     CHOOSE i \in 1..Len(rs) :
                        /\ rs[i].playerId = playerId /\ rs[i].gameId = gameId
                        /\ \A j \in 1..(i - 1) :
                              ~(rs[j].playerId = playerId /\ rs[j].gameId = gameId)
             IN  [rs EXCEPT ![existingRatingIndex] = record]
        ELSE Append(rs, record)

\* addMatch(match): the matches collection afterwards
addMatch(ms, match, id) ==
    Append(ms, [id |-> id, gameId |-> match.gameId, gameName |-> match.gameName,
                playerResults |-> match.playerResults])

\* variant: the records of every game are dropped
WithoutGame_All(list, gameId) == << >>

\* deleteMatchesByGame / deleteRatingsByGame: Array.prototype.filter
WithoutGame(list, gameId) ==
    LET Other(x) == x.gameId # gameId IN SelectSeq(list, Other)

\* the filter of deleteGame
WithoutGameId(gs, gameId) ==
    LET Other(g) == g.id # gameId IN SelectSeq(gs, Other)

----------------------------------------------------------------------------
(* components/MatchForm: onSubmit                                          *)

\* "创建或获取玩家": storage.addPlayer for entries 1..n of the form, in order;
\* found are the players returned, ps the stored collection, id the next id
RECURSIVE AddPlayers(_, _, _, _)
AddPlayers(ps, id, list, n) ==
    IF n = 0 THEN [ps |-> ps, id |-> id, found |-> << >>]
    ELSE LET before == AddPlayers(ps, id, list, n - 1)
             name == Trim(list[n].playerName)
             isNew == existingPlayer(before.ps, name) = Null
         IN  [ps |-> addPlayer(before.ps, name, before.id),
              id |-> IF isNew THEN before.id + 1 ELSE before.id,
              found |-> Append(before.found, addPlayerResult(before.ps, name, before.id))]

\* rating?.rating || game.defaultRating: the stored rating unless there is
\* no record or the stored rating is 0 (falsy)
CurrentRatingOf(rs, player, game) ==
    LET rating == getPlayerRating(rs, player.id, game.id)
    IN  IF rating # Null /\ rating.rating # 0 THEN rating.rating
        ELSE game.defaultRating

\* "获取当前评分": the engine input built from the players of the form
CurrentRatings(rs, found, list, game) ==
    [i \in 1..Len(found) |->
        LET player == found[i]
            SameName(r) == ToLowerCase(Trim(r.playerName)) = ToLowerCase(player.name)
        IN  [playerId |-> player.id,
             position |-> FindFirst(list, SameName).position,
             currentRating |-> CurrentRatingOf(rs, player, game)]]

\* variant: a tie is counted as a win as well
WinsOf_CountsTies(currentRatings, playerId, position) ==
    Cardinality({j \in 1..Len(currentRatings) :
        currentRatings[j].playerId # playerId /\ position <= currentRatings[j].position})

\* "计算胜负平": the other participants beaten by, beating and tied with one
WinsOf(currentRatings, playerId, position) ==
    Cardinality({j \in 1..Len(currentRatings) :
        currentRatings[j].playerId # playerId /\ position < currentRatings[j].position})

LossesOf(currentRatings, playerId, position) ==
    Cardinality({j \in 1..Len(currentRatings) :
        currentRatings[j].playerId # playerId /\ position > currentRatings[j].position})

DrawsOf(currentRatings, playerId, position) ==
    Cardinality({j \in 1..Len(currentRatings) :
        currentRatings[j].playerId # playerId /\ position = currentRatings[j].position})

\* the position looked up for one engine result
PositionOf(currentRatings, playerId) ==
    LET Same(r) == r.playerId = playerId
    IN  FindFirst(currentRatings, Same).position

\* "更新评分": the loop over eloResults[1..n]; rs is the ratings collection
\* after the updates, rows are the matchPlayerResults pushed
RECURSIVE UpdateRatings(_, _, _, _, _, _)
UpdateRatings(rs, eloResults, currentRatings, found, game, n) ==
    IF n = 0 THEN [rs |-> rs, rows |-> << >>]
    ELSE LET before == UpdateRatings(rs, eloResults, currentRatings, found, game, n - 1)
             result == eloResults[n]
             SamePlayer(p) == p.id = result.playerId
             player == FindFirst(found, SamePlayer)
             position == PositionOf(currentRatings, result.playerId)
             currentRating == getPlayerRating(before.rs, result.playerId, game.id)
             Old(field) == IF currentRating = Null THEN 0 ELSE currentRating[field]
             updates ==
                 [rating |-> result.newRating,
                  gamesPlayed |-> Old("gamesPlayed") + 1,
                  wins |-> Old("wins") + WinsOf(currentRatings, result.playerId, position),
                  losses |-> Old("losses") + LossesOf(currentRatings, result.playerId, position),
                  draws |-> Old("draws") + DrawsOf(currentRatings, result.playerId, position)]
         IN  [rs |-> updatePlayerRating(before.rs, result.playerId, game.id, updates),
              rows |-> Append(before.rows,
                  [playerId |-> result.playerId,
                   playerName |-> player.name,
                   position |-> position,
                   previousRating |-> result.previousRating,
                   newRating |-> result.newRating,
                   ratingChange |-> result.ratingChange])]

\* the game the form resolves data.gameId to, or Null
FormGame(gameId) ==
    LET Same(g) == g.id = gameId IN FindFirst(formGames, Same)

\* toast.error(message) and toast.success(message)
ToastError(message) == [type |-> "error", message |-> message]

ToastSuccess(message) == [type |-> "success", message |-> message]

\* the toast that reports the rating change of one row of a recorded match
ToastRatingChange(row) ==
    [type |-> "success", message |-> "rating change",
     playerName |-> row.playerName, previousRating |-> row.previousRating,
     newRating |-> row.newRating, ratingChange |-> row.ratingChange]

\* HomePage.loadGames, run by the effect on refreshKey: a selected game that
\* is no longer among the stored games gs is deselected
loadGames(gs) ==
    IF selectedGame # Null /\ (\A i \in 1..Len(gs) : gs[i].id # selectedGame.id)
    THEN Null
    ELSE selectedGame

\* variant: a badly formed player name does not stop the submission
SubmissionAccepted_NoNameCheck(gameId, list) ==
    /\ validateMatchResults(list).isValid
    /\ FormGame(gameId) # Null

\* onSubmit gets past its three early returns
SubmissionAccepted(gameId, list) ==
    /\ validateMatchResults(list).isValid
    /\ \A i \in 1..Len(list) : isValidPlayerName(list[i].playerName)
    /\ FormGame(gameId) # Null

\* the toasts of onSubmit: the messages of a failed validation, or the
\* message of the early return taken, or the success message followed by one
\* message per row of the recorded match
SubmitToasts(gameId, list, rows) ==
    LET checked == validateMatchResults(list)
    IN  IF ~checked.isValid
        THEN [i \in 1..Len(checked.errors) |-> ToastError(checked.errors[i])]
        ELSE IF \E i \in 1..Len(list) : ~isValidPlayerName(list[i].playerName)
        THEN <<ToastError("player name format")>>
        ELSE IF FormGame(gameId) = Null
        THEN <<ToastError("select a game")>>
        ELSE <<ToastSuccess("match submitted")>>
                 \o [i \in 1..Len(rows) |-> ToastRatingChange(rows[i])]

\* MatchForm.onSubmit(data) with data = [gameId, playerResults |-> list]; on
\* success the form is reset and HomePage.handleMatchSubmitted reloads the
\* games of the page; no prop or state that an effect of the Leaderboard
\* depends on changes
SubmitMatch(gameId, list) ==
    IF ~SubmissionAccepted(gameId, list)
    THEN /\ toasts' = SubmitToasts(gameId, list, << >>)
         /\ UNCHANGED <<formGames, formGameId, selectedGame, pageGames, leaderboardVars>>
         /\ UNCHANGED <<engineVars, validatorVars, storageVars, storageCall, nextId>>
    ELSE LET game == FormGame(gameId)
             added == AddPlayers(players, nextId.player, list, Len(list))
             currentRatings == CurrentRatings(eloRatings, added.found, list, game)
             cfg == [kFactor |-> game.kFactor, defaultRating |-> game.defaultRating]
             eloResults == calculateMultiPlayerElo(currentRatings, cfg)
             updated == UpdateRatings(eloRatings, eloResults, currentRatings,
                                      added.found, game, Len(eloResults))
         IN  /\ players' = added.ps
             /\ playerResults' = currentRatings
             /\ config' = cfg
             /\ results' = eloResults
             /\ pc' = "done"
             /\ eloRatings' = updated.rs
             /\ matches' = addMatch(matches,
                    [gameId |-> game.id, gameName |-> game.name,
                     playerResults |-> updated.rows], nextId.match)
             /\ nextId' = [nextId EXCEPT !.player = added.id,
                                         !.match = nextId.match + 1]
             /\ toasts' = SubmitToasts(gameId, list, updated.rows)
             /\ formGameId' = NoGameId
             /\ pageGames' = games
             /\ selectedGame' = loadGames(games)
             /\ UNCHANGED <<games, formGames, leaderboardVars>>
             /\ UNCHANGED <<validatorVars, storageCall>>

----------------------------------------------------------------------------
(* components/GameForm, components/GameList, app/page                      *)

\* isValidGameName: 2 to 50 characters after trimming
isValidGameName(name) == Len(Trim(name)) >= 2 /\ Len(Trim(name)) <= 50

\* GameForm.onSubmit(data): rejected for a bad or an existing name, else the
\* game is stored under a fresh id and HomePage.handleGameCreated reloads the
\* games
CreateGame(data) ==
    IF ~isValidGameName(data.name)
    THEN /\ toasts' = <<ToastError("game name length")>>
         /\ UNCHANGED <<formGames, formGameId, selectedGame, pageGames, leaderboardVars>>
         /\ UNCHANGED <<engineVars, validatorVars, storageVars, storageCall, nextId>>
    ELSE IF \E i \in 1..Len(games) :
                ToLowerCase(games[i].name) = ToLowerCase(Trim(data.name))
    THEN /\ toasts' = <<ToastError("game name exists")>>
         /\ UNCHANGED <<formGames, formGameId, selectedGame, pageGames, leaderboardVars>>
         /\ UNCHANGED <<engineVars, validatorVars, storageVars, storageCall, nextId>>
    ELSE /\ nextId.game <= MaxGames
         /\ games' = addGame(games, [name |-> Trim(data.name),
                                     kFactor |-> data.kFactor,
                                     defaultRating |-> data.defaultRating], nextId.game)
         /\ nextId' = [nextId EXCEPT !.game = nextId.game + 1]
         /\ toasts' = <<ToastSuccess("game created")>>
         /\ pageGames' = games'
         /\ selectedGame' = loadGames(games')
         /\ UNCHANGED <<players, matches, eloRatings, formGames, formGameId>>
         /\ UNCHANGED leaderboardVars
         /\ UNCHANGED <<engineVars, validatorVars, storageCall>>

\* GameList.handleDeleteGame(game) once the user has confirmed:
\* storage.deleteGame removes the game, its matches and its ratings, and the
\* list reloads itself; HomePage is not told
DeleteGame(gameId) ==
    /\ IF Len(WithoutGameId(games, gameId)) = Len(games)
       THEN /\ toasts' = <<ToastError("delete failed")>>
            /\ UNCHANGED storageVars
       ELSE /\ games' = WithoutGameId(games, gameId)
            /\ matches' = WithoutGame(matches, gameId)
            /\ eloRatings' = WithoutGame(eloRatings, gameId)
            /\ toasts' = <<ToastSuccess("game deleted")>>
            /\ UNCHANGED players
    /\ UNCHANGED <<formGames, formGameId, selectedGame, nextId>>
    /\ UNCHANGED <<pageGames, leaderboardVars>>
    /\ UNCHANGED <<engineVars, validatorVars, storageCall>>

\* the Leaderboard's selectedGameId becomes gameId: if that is another id
\* than before, its effects on selectedGameId read the stored games and
\* load the entries of the game
ShowLeaderboard(gameId) ==
    IF gameId = leaderboardGameId
    THEN UNCHANGED leaderboardVars
    ELSE /\ leaderboardGameId' = gameId
         /\ leaderboardGames' = games
         /\ leaderboard' = loadLeaderboard(players, eloRatings, gameId)

\* HomePage.handleGameSelected(game), a click on a card of the game list:
\* the game becomes the selection, MatchForm's effect on selectedGame puts
\* its id into the gameId field and the Leaderboard's effect on selectedGame
\* makes it the game shown
SelectGame(game) ==
    /\ selectedGame' = game
    /\ formGameId' = game.id
    /\ ShowLeaderboard(game.id)
    /\ UNCHANGED <<formGames, toasts, pageGames, nextId>>
    /\ UNCHANGED <<engineVars, validatorVars, storageVars, storageCall>>

\* the user picks an option of the form's game select
ChooseGame(gameId) ==
    /\ formGameId' = gameId
    /\ UNCHANGED <<formGames, selectedGame, toasts, nextId>>
    /\ UNCHANGED <<pageGames, leaderboardVars>>
    /\ UNCHANGED <<engineVars, validatorVars, storageVars, storageCall>>

\* Leaderboard.handleGameChange(gameId), another option of the leaderboard's
\* game select is chosen: the Leaderboard shows that game and
\* HomePage.handleLeaderboardGameChange selects the game of that id among
\* the games of the page, or nothing if it is not among them; MatchForm's
\* effect puts the id of a selected game into the gameId field
ChangeLeaderboardGame(gameId) ==
    LET Same(g) == g.id = gameId
        game == FindFirst(pageGames, Same)
    IN  /\ gameId # leaderboardGameId
        /\ ShowLeaderboard(gameId)
        /\ selectedGame' = game
        /\ formGameId' = IF game # Null THEN game.id ELSE formGameId
        /\ UNCHANGED <<formGames, toasts, pageGames, nextId>>
        /\ UNCHANGED <<engineVars, validatorVars, storageVars, storageCall>>

\* the page is (re)loaded: every component starts from its initial state,
\* the mount effects of HomePage, MatchForm and Leaderboard read the stored
\* games and the Leaderboard shows the first of them
MountMatchForm ==
    /\ formGames' = games
    /\ formGameId' = NoGameId
    /\ selectedGame' = Null
    /\ toasts' = << >>
    /\ pageGames' = games
    /\ leaderboardGames' = games
    /\ leaderboardGameId' = FirstGameId(games)
    /\ leaderboard' = LeaderboardOf(players, eloRatings, FirstGameId(games))
    /\ UNCHANGED <<nextId>>
    /\ UNCHANGED <<engineVars, validatorVars, storageVars, storageCall>>

----------------------------------------------------------------------------
(* The application as a state machine                                      *)

\* nothing stored, the page loaded, no call made
Init ==
    /\ EmptyStorage /\ PageLoaded /\ NoEngineCall /\ NoValidatorCall

\* the forms of n rows that handleSubmit passes to onSubmit: every name is
\* 2 to 20 characters long and every position is between 1 and n
Forms(n) ==
    {list \in [1..n -> [playerName : UNION {Names[i] : i \in 1..Len(Names)},
                        position : 1..n]] :
        \A i \in 1..n : list[i].playerName \in Names[i]}

FormEntries == UNION { Forms(n) : n \in 2..MaxFormPlayers }

\* the options of the form's game select
GameOptions == {formGames[i].id : i \in 1..Len(formGames)}

\* the options of the leaderboard's game select
LeaderboardOptions == {leaderboardGames[i].id : i \in 1..Len(leaderboardGames)}

\* the cards of the game list (GameList reloads the stored games on every
\* refresh and after every deletion)
GameCards == {games[i] : i \in 1..Len(games)}

\* handleSubmit calls onSubmit only if the gameId field is not empty
Submit(forms) ==
    /\ formGameId # NoGameId
    /\ \E list \in forms : SubmitMatch(formGameId, list)

\* (with a single game the leaderboard's select never offers another option
\* than the one shown, so ChangeLeaderboardGame is left to SpecPage)
Next ==
    \/ \E data \in GameSettings : CreateGame(data)
    \/ \E game \in GameCards : DeleteGame(game.id)
    \/ \E game \in GameCards : SelectGame(game)
    \/ \E gameId \in GameOptions : ChooseGame(gameId)
    \/ MountMatchForm
    \/ nextId.match <= MaxMatches /\ Submit(FormEntries)

Spec == Init /\ [][Next]_vars

----------------------------------------------------------------------------
(* The submission workflow on its own: a page with one stored game         *)

\* the game was created in an earlier visit, or else in this one after the
\* form had mounted; then it was selected in the game list
InitSubmit ==
    /\ NoEngineCall /\ NoValidatorCall
    /\ \E data \in GameSettings :
         games = addGame(<< >>, [name |-> Trim(data.name), kFactor |-> data.kFactor,
                                 defaultRating |-> data.defaultRating], FirstIds.game)
    /\ players = << >> /\ matches = << >> /\ eloRatings = << >>
    /\ storageCall = NoStorageCall
    /\ nextId = [FirstIds EXCEPT !.game = FirstIds.game + 1]
    /\ \/ formGames = games /\ toasts = << >>
       \/ formGames = << >> /\ toasts = <<ToastSuccess("game created")>>
    /\ selectedGame = games[1]
    /\ formGameId = games[1].id
    /\ pageGames = games
    /\ leaderboardGames = games
    /\ leaderboardGameId = games[1].id
    /\ leaderboard = << >>

MatchEntries == UNION { Forms(n) : n \in FormSizes }

NextSubmit ==
    \/ \E game \in GameCards : SelectGame(game)
    \/ nextId.match <= MaxSubmissions /\ Submit(MatchEntries)

SpecSubmit == InitSubmit /\ [][NextSubmit]_vars

----------------------------------------------------------------------------
(* The storage manager on its own: its methods called directly, with       *)
(* writes that local storage may refuse                                    *)

STORAGE_KEYS == [GAMES |-> "elo-app-games", PLAYERS |-> "elo-app-players",
                 MATCHES |-> "elo-app-matches", ELO_RATINGS |-> "elo-app-elo-ratings"]

\* the element a method has just pushed onto a collection
Pushed(list) == list[Len(list)]

\* variant: no try/catch around localStorage.setItem
setItem_Uncaught(key, stored, value, accepted) ==
    [key |-> key, accepted |-> accepted,
     stored |-> IF accepted THEN value ELSE stored,
     thrown |-> ~accepted]

\* setItem(key, value): localStorage.setItem either stores the serialized
\* value or throws (quota exceeded, storage disabled) and leaves the key as
\* it was; the catch logs the error and returns.  stored is the value kept
\* under the key afterwards, thrown tells whether an error leaves setItem
setItem(key, stored, value, accepted) ==
    [key |-> key, accepted |-> accepted,
     stored |-> IF accepted THEN value ELSE stored,
     thrown |-> FALSE]

\* the record of a call: its arguments, the writes attempted, in order,
\* whether an error reached the caller, and else the value returned (as a
\* record: [ok |-> b] for a boolean b, Null for void)
StorageCall(method, args, writes, returned) ==
    LET thrown == \E i \in 1..Len(writes) : writes[i].thrown
    IN  [number |-> storageCall.number + 1, method |-> method, args |-> args,
         writes |-> [i \in 1..Len(writes) |->
                        [key |-> writes[i].key, accepted |-> writes[i].accepted]],
         thrown |-> thrown,
         returned |-> IF thrown THEN Null ELSE returned]

\* the rows of a match between the first two players, as onSubmit stores them
MatchRows ==
    << [playerId |-> 1, playerName |-> <<"a", "l">>, position |-> 1,
        previousRating |-> 1500, newRating |-> 1516, ratingChange |-> 16],
       [playerId |-> 2, playerName |-> <<"b", "o">>, position |-> 2,
        previousRating |-> 1500, newRating |-> 1484, ratingChange |-> -16] >>

StoredGameData(n) ==
    [name |-> <<"G">> \o [i \in 1..n |-> "o"], kFactor |-> 32, defaultRating |-> 1500]

MatchData(gameId) ==
    [gameId |-> gameId, gameName |-> StoredGameData(gameId).name,
     playerResults |-> MatchRows]

\* the records onSubmit writes for MatchRows
RatingUpdates ==
    << [rating |-> 1516, gamesPlayed |-> 1, wins |-> 1, losses |-> 0, draws |-> 0],
       [rating |-> 1484, gamesPlayed |-> 1, wins |-> 0, losses |-> 1, draws |-> 0] >>

\* the storage after n games were created and, in each of them, one match
\* between the same two players was recorded
RECURSIVE Populated(_)
Populated(n) ==
    IF n = 0
    THEN [games |-> << >>, players |-> << >>, matches |-> << >>, eloRatings |-> << >>]
    ELSE LET before == Populated(n - 1)
         IN  [games |-> addGame(before.games, StoredGameData(n), n),
              players |-> addPlayer(addPlayer(before.players, <<"a", "l">>, 1),
                                    <<"b", "o">>, 2),
              matches |-> addMatch(before.matches, MatchData(n), n),
              eloRatings |->
                  updatePlayerRating(
                      updatePlayerRating(before.eloRatings, 1, n, RatingUpdates[1]),
                      2, n, RatingUpdates[2])]

InitStorage ==
    /\ NoEngineCall /\ NoValidatorCall
    /\ \E n \in 0..MaxStoredGames :
          /\ games = Populated(n).games
          /\ players = Populated(n).players
          /\ matches = Populated(n).matches
          /\ eloRatings = Populated(n).eloRatings
          /\ nextId = [game |-> FirstIds.game + n,
                       player |-> FirstIds.player + Len(Populated(n).players),
                       match |-> FirstIds.match + n]
    /\ storageCall = NoStorageCall
    /\ PageLoaded

\* the arguments of the direct calls
NewGameData == { [name |-> <<"U", "n", "o">>, kFactor |-> 100, defaultRating |-> 100] }

PlayerNames == { <<"a", "l">>, <<"A", "l">>, <<"a", "l", " ">>, <<"c", "y">> }

PlayerIds == 1..2

GameIds == 1..MaxStoredGames

\* storage.addGame(gameData)
CallAddGame(gameData, accepted) ==
    LET write == setItem(STORAGE_KEYS.GAMES, games,
                         addGame(games, gameData, nextId.game), accepted)
    IN  /\ games' = write.stored
        /\ nextId' = [nextId EXCEPT !.game = nextId.game + 1]
        /\ storageCall' = StorageCall("addGame", [gameData |-> gameData], <<write>>,
                                      Pushed(addGame(games, gameData, nextId.game)))
        /\ UNCHANGED <<players, matches, eloRatings>>
        /\ UNCHANGED <<engineVars, validatorVars, pageVars>>

\* storage.addPlayer(name): nothing is written if the name is found
CallAddPlayer(name, accepted) ==
    IF existingPlayer(players, name) # Null
    THEN /\ storageCall' = StorageCall("addPlayer", [name |-> name], << >>,
                                       addPlayerResult(players, name, nextId.player))
         /\ UNCHANGED <<storageVars, nextId>>
         /\ UNCHANGED <<engineVars, validatorVars, pageVars>>
    ELSE LET write == setItem(STORAGE_KEYS.PLAYERS, players,
                              addPlayer(players, name, nextId.player), accepted)
         IN  /\ players' = write.stored
             /\ nextId' = [nextId EXCEPT !.player = nextId.player + 1]
             /\ storageCall' = StorageCall("addPlayer", [name |-> name], <<write>>,
                                           addPlayerResult(players, name, nextId.player))
             /\ UNCHANGED <<games, matches, eloRatings>>
             /\ UNCHANGED <<engineVars, validatorVars, pageVars>>

\* storage.updatePlayerRating(playerId, gameId, updates)
CallUpdatePlayerRating(playerId, gameId, updates, accepted) ==
    LET write == setItem(STORAGE_KEYS.ELO_RATINGS, eloRatings,
                         updatePlayerRating(eloRatings, playerId, gameId, updates),
                         accepted)
    IN  /\ eloRatings' = write.stored
        /\ storageCall' =
               StorageCall("updatePlayerRating",
                           [playerId |-> playerId, gameId |-> gameId, updates |-> updates],
                           <<write>>,
                           getPlayerRating(
                               updatePlayerRating(eloRatings, playerId, gameId, updates),
                               playerId, gameId))
        /\ UNCHANGED <<games, players, matches, nextId>>
        /\ UNCHANGED <<engineVars, validatorVars, pageVars>>

\* storage.addMatch(match)
CallAddMatch(match, accepted) ==
    LET write == setItem(STORAGE_KEYS.MATCHES, matches,
                         addMatch(matches, match, nextId.match), accepted)
    IN  /\ matches' = write.stored
        /\ nextId' = [nextId EXCEPT !.match = nextId.match + 1]
        /\ storageCall' = StorageCall("addMatch", [match |-> match], <<write>>,
                                      Pushed(addMatch(matches, match, nextId.match)))
        /\ UNCHANGED <<games, players, eloRatings>>
        /\ UNCHANGED <<engineVars, validatorVars, pageVars>>

\* storage.deleteGame(gameId): nothing is written if the game is not stored;
\* else saveGames, deleteMatchesByGame and deleteRatingsByGame write in turn,
\* a write being attempted only if no error left the ones before it
CallDeleteGame(gameId, accepted) ==
    IF Len(WithoutGameId(games, gameId)) = Len(games)
    THEN /\ storageCall' = StorageCall("deleteGame", [gameId |-> gameId], << >>,
                                       [ok |-> FALSE])
         /\ UNCHANGED <<storageVars, nextId>>
         /\ UNCHANGED <<engineVars, validatorVars, pageVars>>
    ELSE LET saved == setItem(STORAGE_KEYS.GAMES, games,
                              WithoutGameId(games, gameId), accepted[1])
             byMatches == setItem(STORAGE_KEYS.MATCHES, matches,
                                  WithoutGame(matches, gameId), accepted[2])
             byRatings == setItem(STORAGE_KEYS.ELO_RATINGS, eloRatings,
                                  WithoutGame(eloRatings, gameId), accepted[3])
             writes == IF saved.thrown THEN <<saved>>
                       ELSE IF byMatches.thrown THEN <<saved, byMatches>>
                       ELSE <<saved, byMatches, byRatings>>
         IN  /\ games' = saved.stored
             /\ matches' = IF Len(writes) >= 2 THEN byMatches.stored ELSE matches
             /\ eloRatings' = IF Len(writes) >= 3 THEN byRatings.stored ELSE eloRatings
             /\ storageCall' = StorageCall("deleteGame", [gameId |-> gameId], writes,
                                           [ok |-> TRUE])
             /\ UNCHANGED <<players, nextId>>
             /\ UNCHANGED <<engineVars, validatorVars, pageVars>>

\* another direct call is made
CanCall == storageCall.number < MaxCalls

NextStorage ==
    \/ CanCall /\ \E gameData \in NewGameData, accepted \in BOOLEAN :
          CallAddGame(gameData, accepted)
    \/ CanCall /\ \E name \in PlayerNames, accepted \in BOOLEAN :
          CallAddPlayer(name, accepted)
    \/ CanCall /\ \E playerId \in PlayerIds, gameId \in GameIds, accepted \in BOOLEAN :
          CallUpdatePlayerRating(playerId, gameId, RatingUpdates[2], accepted)
    \/ CanCall /\ \E gameId \in GameIds, accepted \in BOOLEAN :
          CallAddMatch(MatchData(gameId), accepted)
    \/ CanCall /\ \E gameId \in GameIds, accepted \in [1..3 -> BOOLEAN] :
          CallDeleteGame(gameId, accepted)

SpecStorage == InitStorage /\ [][NextStorage]_vars

----------------------------------------------------------------------------
(* The page on the storage left by earlier visits: games with a recorded   *)
(* match each; no game is created in this visit                            *)

InitPage ==
    /\ NoEngineCall /\ NoValidatorCall
    /\ \E n \in 1..MaxStoredGames :
          /\ games = Populated(n).games
          /\ players = Populated(n).players
          /\ matches = Populated(n).matches
          /\ eloRatings = Populated(n).eloRatings
          /\ nextId = [game |-> FirstIds.game + n,
                       player |-> FirstIds.player + Len(Populated(n).players),
                       match |-> FirstIds.match + n]
    /\ storageCall = NoStorageCall
    /\ PageLoaded

NextPage ==
    \/ \E game \in GameCards : DeleteGame(game.id)
    \/ \E game \in GameCards : SelectGame(game)
    \/ \E gameId \in GameOptions : ChooseGame(gameId)
    \/ \E gameId \in LeaderboardOptions : ChangeLeaderboardGame(gameId)
    \/ MountMatchForm
    \/ nextId.match <= MaxMatches /\ Submit(FormEntries)

SpecPage == InitPage /\ [][NextPage]_vars

----------------------------------------------------------------------------
(* Properties of one engine call                                           *)

Done == pc = "done"

\* participants carry pairwise distinct player ids (a well-formed match)
DistinctIds ==
    \A i, j \in DOMAIN playerResults :
        playerResults[i].playerId = playerResults[j].playerId => i = j

AllSamePosition ==
    \A i, j \in DOMAIN playerResults :
        playerResults[i].position = playerResults[j].position

AllSameRating ==
    \A i, j \in DOMAIN playerResults :
        playerResults[i].currentRating = playerResults[j].currentRating

HasOpponent(i) ==
    \E j \in DOMAIN playerResults :
        playerResults[j].playerId # playerResults[i].playerId

RECURSIVE SumRatingChange(_, _)
SumRatingChange(res, n) ==
    IF n = 0 THEN 0 ELSE SumRatingChange(res, n - 1) + res[n].ratingChange

\* C1: every result of calculateMultiPlayerElo has newRating >= 0, for any
\* participants (one or more, negative ratings included) and any kFactor
C1_NonNegative ==
    Done => \A i \in DOMAIN results : results[i].newRating >= 0

\* C2 as stated: every result has newRating = previousRating + ratingChange
C2_ExactSum ==
    Done => \A i \in DOMAIN results :
        results[i].newRating = results[i].previousRating + results[i].ratingChange

\* C2 as amended: a participant without opponents keeps its rating with
\* ratingChange 0; a participant with opponents gets
\* max(0, previousRating + ratingChange), or one more than that (the two
\* values are rounded independently), never less
C2_ClampedSum ==
    Done => \A i \in DOMAIN results :
        LET sum == results[i].previousRating + results[i].ratingChange
        IN  IF HasOpponent(i)
            THEN results[i].newRating \in {Max(0, sum), Max(0, sum + 1)}
            ELSE /\ results[i].ratingChange = 0
                 /\ results[i].newRating = results[i].previousRating

\* a participant with opponents whose rating would fall below 0 is clamped
C2_Witness ==
    /\ Done
    /\ \E i \in DOMAIN results :
        /\ HasOpponent(i)
        /\ results[i].previousRating + results[i].ratingChange < 0
        /\ results[i].newRating = 0

\* C3 as stated: if every participant has the same position, every
\* ratingChange is 0, whatever the ratings are
C3_AllTiesZero ==
    (Done /\ DistinctIds /\ AllSamePosition)
        => \A i \in DOMAIN results : results[i].ratingChange = 0

\* C3 as amended: if every participant has the same position, ratingChange
\* is 0 for a participant whose opponents all have its own rating, it is
\* >= 0 for one rated no higher than any opponent and <= 0 for one rated no
\* lower than any opponent (kFactor >= 0)
C3_TiesPullTogether ==
    (Done /\ DistinctIds /\ AllSamePosition)
        => \A i \in DOMAIN results :
            /\ (\A j \in DOMAIN playerResults :
                    playerResults[j].currentRating = playerResults[i].currentRating)
                => results[i].ratingChange = 0
            /\ (\A j \in DOMAIN playerResults :
                    playerResults[j].currentRating >= playerResults[i].currentRating)
                => results[i].ratingChange >= 0
            /\ (\A j \in DOMAIN playerResults :
                    playerResults[j].currentRating <= playerResults[i].currentRating)
                => results[i].ratingChange <= 0

\* an all-tied match of unequally rated players moves the ratings
C3_Witness ==
    /\ Done /\ DistinctIds /\ AllSamePosition
    /\ Len(results) >= 2
    /\ \E i, j \in DOMAIN results :
        results[i].ratingChange > 0 /\ results[j].ratingChange < 0

\* C4 as stated: when all participants (2 or more) have the same current
\* rating, the returned ratingChange values sum to exactly 0
C4_ZeroSum ==
    (Done /\ DistinctIds /\ AllSameRating /\ Len(results) >= 2)
        => SumRatingChange(results, Len(results)) = 0

\* C4 as amended: when all participants (2 or more) have the same current
\* rating, the ratingChange values sum to 0 if every unrounded change is an
\* integer, and in general to at most half the number of participants in
\* absolute value
C4_BoundedSum ==
    (Done /\ DistinctIds /\ AllSameRating /\ Len(results) >= 2)
        => /\ 2 * Abs(SumRatingChange(results, Len(results))) <= Len(results)
           /\ (\A i \in DOMAIN playerResults :
                    ChangeNum(playerResults[i], playerResults, config.kFactor)
                        % ChangeDen(playerResults[i], playerResults) = 0)
                => SumRatingChange(results, Len(results)) = 0

\* equally rated players, a decisive result, and a non-zero sum of changes
C4_Witness ==
    /\ Done /\ DistinctIds /\ AllSameRating /\ Len(results) >= 2
    /\ ~AllSamePosition
    /\ SumRatingChange(results, Len(results)) # 0

\* C5: for exactly 2 participants with distinct ids the two ratingChange
\* values sum to -1, 0 or 1
C5_Symmetry ==
    (Done /\ DistinctIds /\ Len(results) = 2)
        => results[1].ratingChange + results[2].ratingChange \in {-1, 0, 1}

\* two unequally rated players, a decisive result, and changes of opposite
\* sign
C5_Witness ==
    /\ Done /\ DistinctIds /\ Len(results) = 2
    /\ playerResults[1].currentRating # playerResults[2].currentRating
    /\ playerResults[1].position # playerResults[2].position
    /\ results[1].ratingChange * results[2].ratingChange < 0

\* C7: one result per input participant, in input order, carrying the
\* participant's playerId and its currentRating as previousRating; an empty
\* input gives an empty output
C7_OnePerParticipant ==
    Done => /\ Len(results) = Len(playerResults)
            /\ \A i \in DOMAIN playerResults :
                /\ results[i].playerId = playerResults[i].playerId
                /\ results[i].previousRating = playerResults[i].currentRating

\* a call with three different players of different ratings has returned
C7_Witness ==
    /\ Done /\ DistinctIds /\ Len(results) = 3
    /\ playerResults[1].currentRating # playerResults[3].currentRating

\* C8: a single participant is returned with ratingChange 0 and newRating
\* equal to its currentRating
C8_SingleUnchanged ==
    (Done /\ Len(playerResults) = 1)
        => /\ results[1].ratingChange = 0
           /\ results[1].newRating = playerResults[1].currentRating

\* a single participant with a negative rating and a non-zero kFactor
C8_Witness ==
    /\ Done /\ Len(playerResults) = 1
    /\ playerResults[1].currentRating < 0
    /\ config.kFactor > 0
    /\ results[1].newRating = playerResults[1].currentRating

\* C9: if all participants (2 or more) have the same rating and the same
\* position, every ratingChange is 0 and, for a non-negative rating, every
\* newRating equals previousRating
C9_AllTiedFixedPoint ==
    (Done /\ Len(playerResults) >= 2 /\ AllSameRating /\ AllSamePosition)
        => \A i \in DOMAIN results :
            /\ results[i].ratingChange = 0
            /\ results[i].previousRating >= 0
                => results[i].newRating = results[i].previousRating

\* the three-way tie of the players rated 1500
C9_Witness ==
    /\ Done /\ DistinctIds /\ Len(playerResults) = 3
    /\ AllSamePosition
    /\ \A i \in DOMAIN playerResults : playerResults[i].currentRating = 1500
    /\ config.kFactor = 32
    /\ \A i \in DOMAIN results : results[i].newRating = 1500

\* two different players, the same rating, a decisive result, an even kFactor
C10_Case ==
    /\ Done /\ DistinctIds /\ Len(playerResults) = 2
    /\ playerResults[1].currentRating = playerResults[2].currentRating
    /\ playerResults[1].position # playerResults[2].position
    /\ config.kFactor % 2 = 0

\* C10 as stated: the winner gets ratingChange K/2 and newRating r + K/2,
\* the loser ratingChange -K/2 and newRating max(0, r - K/2)
C10_EvenSplit ==
    C10_Case =>
        LET w == IF playerResults[1].position < playerResults[2].position THEN 1 ELSE 2
            l == 3 - w
            r == playerResults[1].currentRating
            half == config.kFactor \div 2
        IN  /\ results[w].ratingChange = half
            /\ results[w].newRating = r + half
            /\ results[l].ratingChange = -half
            /\ results[l].newRating = Max(0, r - half)

\* C10 as amended: the winner's newRating is max(0, r + K/2) as well
C10_EvenSplitClamped ==
    C10_Case =>
        LET w == IF playerResults[1].position < playerResults[2].position THEN 1 ELSE 2
            l == 3 - w
            r == playerResults[1].currentRating
            half == config.kFactor \div 2
        IN  /\ results[w].ratingChange = half
            /\ results[w].newRating = Max(0, r + half)
            /\ results[l].ratingChange = -half
            /\ results[l].newRating = Max(0, r - half)

\* r = 1500, K = 32: the winner goes to 1516 by +16, the loser to 1484 by -16
C10_Witness ==
    /\ C10_Case
    /\ config.kFactor = 32
    /\ playerResults[1].currentRating = 1500
    /\ playerResults[1].position < playerResults[2].position
    /\ results[1].newRating = 1516 /\ results[1].ratingChange = 16
    /\ results[2].newRating = 1484 /\ results[2].ratingChange = -16

\* C11: with kFactor 0 every result has ratingChange 0, whatever the
\* participants, their ratings and their positions are
C11_ZeroKFactor ==
    (Done /\ config.kFactor = 0)
        => \A i \in DOMAIN results : results[i].ratingChange = 0

\* kFactor 0, three different players of unequal ratings, a decisive result
C11_Witness ==
    /\ Done /\ config.kFactor = 0
    /\ DistinctIds /\ Len(results) = 3
    /\ ~AllSameRating /\ ~AllSamePosition
    /\ \A i \in DOMAIN results : results[i].ratingChange = 0

\* C12: within one match a participant with a better (smaller) position
\* gets a ratingChange at least as large as any participant with a worse
\* position, whatever the current ratings are
C12_BetterPositionGainsMore ==
    (Done /\ DistinctIds)
        => \A i, j \in DOMAIN results :
            playerResults[i].position < playerResults[j].position
                => results[i].ratingChange >= results[j].ratingChange

----------------------------------------------------------------------------
(* Properties of one validateMatchResults call                             *)

Validated == validation # Null

Reported(message) ==
    \E i \in 1..Len(validation.errors) : validation.errors[i] = message

\* how often a message occurs among the errors
TimesReported(message) ==
    Cardinality({i \in 1..Len(validation.errors) : validation.errors[i] = message})

\* a name without its leading and trailing blanks
CoreOf(name) ==
    LET inked == {i \in 1..Len(name) : name[i] # " "}
    IN  IF inked = {} THEN << >>
        ELSE SubSeq(name, CHOOSE i \in inked : \A j \in inked : i <= j,
                          CHOOSE i \in inked : \A j \in inked : j <= i)

\* two characters that are equal up to their case
SameLetter(c, d) ==
    \/ c = d
    \/ {c, d} \in { {"a", "A"}, {"b", "B"}, {"l", "L"}, {"o", "O"} }

\* two names that are equal once trimmed and case-folded
SameNameFolded(a, b) ==
    /\ Len(CoreOf(a)) = Len(CoreOf(b))
    /\ \A i \in 1..Len(CoreOf(a)) : SameLetter(CoreOf(a)[i], CoreOf(b)[i])

HasDuplicateNames ==
    \E i, j \in 1..Len(entries) :
        i # j /\ SameNameFolded(entries[i].playerName, entries[j].playerName)

HasEmptyName ==
    \E i \in 1..Len(entries) : CoreOf(entries[i].playerName) = << >>

HasPositionOutOfRange ==
    \E i \in 1..Len(entries) :
        entries[i].position < 1 \/ entries[i].position > Len(entries)

\* the smallest position is 1 (no entries, no smallest position)
StartsFromOne ==
    /\ \E i \in 1..Len(entries) : entries[i].position = 1
    /\ \A i \in 1..Len(entries) : entries[i].position >= 1

\* the positions from 1 upwards that some entry holds
Occupied == {p \in {entries[i].position : i \in 1..Len(entries)} : p >= 1}

GroupSize(p) == Cardinality({i \in 1..Len(entries) : entries[i].position = p})

\* the position expected at occupied position p: 1 for the first, and the
\* previous occupied position plus the size of its tie group afterwards
ExpectedAt(p) ==
    LET before == {q \in Occupied : q < p}
    IN  IF before = {} THEN 1
        ELSE LET q == CHOOSE q \in before : \A r \in before : r <= q
             IN  q + GroupSize(q)

NotContiguous == \E p \in Occupied : p # ExpectedAt(p)

Positions == [i \in 1..Len(entries) |-> entries[i].position]

\* C13: each of the six checks is reported iff it fails, whatever the other
\* checks find; no message is reported twice; isValid iff nothing is reported
C13_AllErrorsCollected ==
    Validated =>
        /\ Reported("at least 2 players") <=> Len(entries) < 2
        /\ Reported("duplicate names") <=> HasDuplicateNames
        /\ Reported("empty name") <=> HasEmptyName
        /\ Reported("position out of range") <=> HasPositionOutOfRange
        /\ Reported("must start from 1") <=> ~StartsFromOne
        /\ Reported("not contiguous") <=> NotContiguous
        /\ \A i, j \in 1..Len(validation.errors) :
              validation.errors[i] = validation.errors[j] => i = j
        /\ validation.isValid <=> validation.errors = << >>

\* positions [0, 1, 2] of three different players: the range error and the
\* must-start-from-1 error are both reported, and nothing else
C13_Witness ==
    /\ Validated
    /\ Positions = <<0, 1, 2>>
    /\ ~HasDuplicateNames /\ ~HasEmptyName
    /\ validation.errors = <<"position out of range", "must start from 1">>
    /\ ~validation.isValid

\* C14: the non-contiguous error is reported once if some occupied position
\* from 1 upwards differs from the position expected there, and not at all
\* otherwise; [1,1,3] passes, [1,2,4] and [1,1,2] are rejected
C14_TieAwareContiguity ==
    Validated =>
        /\ TimesReported("not contiguous") = (IF NotContiguous THEN 1 ELSE 0)
        /\ Positions = <<1, 1, 3>> => ~Reported("not contiguous")
        /\ Positions = <<1, 2, 4>> => Reported("not contiguous")
        /\ Positions = <<1, 1, 2>> => Reported("not contiguous")

\* positions [1, 1, 2]: the overlap after the tie is the only error
C14_Witness ==
    /\ Validated
    /\ Positions = <<1, 1, 2>>
    /\ validation.errors = <<"not contiguous">>

\* C15: the duplicate-name error is reported iff two entries have the same
\* name once trimmed and case-folded, and the empty-name error iff some
\* entry's trimmed name is empty
C15_NameChecks ==
    Validated =>
        /\ Reported("duplicate names") <=> HasDuplicateNames
        /\ Reported("empty name") <=> HasEmptyName

\* "al" and "Al " are reported as duplicates although no name is empty
C15_Witness ==
    /\ Validated
    /\ Len(entries) = 2
    /\ entries[1].playerName = <<"a", "l">>
    /\ entries[2].playerName = <<"A", "l", " ">>
    /\ Reported("duplicate names") /\ ~Reported("empty name")

\* the three position checks all pass
PositionChecksPass ==
    /\ ~Reported("position out of range")
    /\ ~Reported("must start from 1")
    /\ ~Reported("not contiguous")

\* standard competition ranking: every entry's position is 1 plus the number
\* of entries with a strictly smaller position
CompetitionRanking ==
    \A i \in 1..Len(entries) :
        entries[i].position
            = 1 + Cardinality({j \in 1..Len(entries) :
                                  entries[j].position < entries[i].position})

\* C24 as stated: the three position checks all pass iff the positions form
\* a standard competition ranking.
C24_ChecksIffRanking ==
    Validated => (PositionChecksPass <=> CompetitionRanking)

\* C24, amended: for at least one entry, the three position checks all pass
\* iff the positions form a standard competition ranking; for no entries
\* the start-from-1 check fails.
C24_ChecksIffRankingNonEmpty ==
    Validated =>
        IF Len(entries) > 0
        THEN PositionChecksPass <=> CompetitionRanking
        ELSE Reported("must start from 1")

\* three entries in a competition ranking with a tie have passed the checks
C24_Witness ==
    /\ Validated /\ Len(entries) = 3
    /\ Positions = <<3, 1, 1>>
    /\ PositionChecksPass /\ CompetitionRanking

----------------------------------------------------------------------------
(* Properties of the match-submission workflow                             *)

\* the step is an accepted submission: one match record is appended
MatchRecorded == Len(matches') = Len(matches) + 1

\* the newest stored match
LastMatch(ms) == ms[Len(ms)]

\* the matches of ms for game gameId in which player playerId took part
MatchesOf(ms, playerId, gameId) ==
    {j \in 1..Len(ms) :
        /\ ms[j].gameId = gameId
        /\ \E k \in 1..Len(ms[j].playerResults) :
              ms[j].playerResults[k].playerId = playerId}

\* the row of player playerId in a match record
RowOf(match, playerId) ==
    LET Same(row) == row.playerId = playerId
    IN  FindFirst(match.playerResults, Same)

\* C6: in every accepted submission the currentRating passed to the engine
\* for a participant is the stored rating of that player for the game
\* whenever a rating record exists (a stored 0 included) and the game's
\* defaultRating otherwise; and the previousRating recorded for a player
\* equals the newRating of that player's preceding match in the same game
C6_StoredRatingPassed ==
    [][MatchRecorded =>
        LET gameId == LastMatch(matches').gameId
        IN  \A i \in 1..Len(playerResults') :
                LET playerId == playerResults'[i].playerId
                    rating == getPlayerRating(eloRatings, playerId, gameId)
                    earlier == MatchesOf(matches, playerId, gameId)
                IN  /\ playerResults'[i].currentRating =
                          (IF rating # Null THEN rating.rating ELSE config'.defaultRating)
                    /\ earlier # {} =>
                          LET last == CHOOSE j \in earlier : \A k \in earlier : k <= j
                          IN  RowOf(LastMatch(matches'), playerId).previousRating
                                  = RowOf(matches[last], playerId).newRating
    ]_vars

\* the stored counters of a player for a game, all 0 without a record
CountersOf(rs, playerId, gameId) ==
    LET rating == getPlayerRating(rs, playerId, gameId)
    IN  IF rating = Null
        THEN [gamesPlayed |-> 0, wins |-> 0, losses |-> 0, draws |-> 0]
        ELSE [gamesPlayed |-> rating.gamesPlayed, wins |-> rating.wins,
              losses |-> rating.losses, draws |-> rating.draws]

\* the rows of a match record other than row k that satisfy Test
OtherRows(match, k, Test(_)) ==
    Cardinality({j \in 1..Len(match.playerResults) :
        j # k /\ Test(match.playerResults[j])})

RECURSIVE SumField(_, _, _, _)
SumField(rs, gameId, field, n) ==
    IF n = 0 THEN 0
    ELSE SumField(rs, gameId, field, n - 1)
            + (IF rs[n].gameId = gameId THEN rs[n][field] ELSE 0)

\* over the rating records of every game, the wins add up to the losses
WinsEqualLosses(rs) ==
    \A n \in 1..Len(rs) :
        SumField(rs, rs[n].gameId, "wins", Len(rs))
            = SumField(rs, rs[n].gameId, "losses", Len(rs))

\* C16: an accepted submission with N participants adds 1 to gamesPlayed of
\* every participant's rating record for the game, to wins the number of
\* other participants with a larger position, to losses the number with a
\* smaller one and to draws the number with an equal one, N - 1 in all; and
\* the wins of a game's records always add up to their losses
C16_CountersFromPositions ==
    [][/\ WinsEqualLosses(eloRatings')
       /\ MatchRecorded =>
            LET match == LastMatch(matches')
                N == Len(match.playerResults)
            IN  \A k \in 1..N :
                    LET row == match.playerResults[k]
                        Worse(other) == other.position > row.position
                        Better(other) == other.position < row.position
                        Level(other) == other.position = row.position
                        old == CountersOf(eloRatings, row.playerId, match.gameId)
                        new == CountersOf(eloRatings', row.playerId, match.gameId)
                    IN  /\ getPlayerRating(eloRatings', row.playerId, match.gameId) # Null
                        /\ new.gamesPlayed = old.gamesPlayed + 1
                        /\ new.wins = old.wins + OtherRows(match, k, Worse)
                        /\ new.losses = old.losses + OtherRows(match, k, Better)
                        /\ new.draws = old.draws + OtherRows(match, k, Level)
                        /\ new.wins + new.losses + new.draws
                              = old.wins + old.losses + old.draws + (N - 1)
    ]_vars

\* after two matches a player has a win, a loss and two draws: second of
\* three behind one and ahead of one, then tied with both others
C16_Witness ==
    /\ Len(matches) = 2
    /\ \E n \in 1..Len(eloRatings) :
        /\ eloRatings[n].gamesPlayed = 2
        /\ eloRatings[n].wins = 1 /\ eloRatings[n].losses = 1
        /\ eloRatings[n].draws = 2

\* every stored rating is the newRating of the player's latest match in the
\* game
RatingsFollowMatches(rs, ms) ==
    \A n \in 1..Len(rs) :
        LET played == MatchesOf(ms, rs[n].playerId, rs[n].gameId)
        IN  /\ played # {}
            /\ LET last == CHOOSE j \in played : \A k \in played : k <= j
               IN  rs[n].rating = RowOf(ms[last], rs[n].playerId).newRating

\* C17: every stored rating record has the newRating that the most recent
\* match record of its game containing its player records for that player,
\* and a submission leaves the earlier match records as they were
C17_RatingIsLatestMatch ==
    [][/\ RatingsFollowMatches(eloRatings', matches')
       /\ MatchRecorded => SubSeq(matches', 1, Len(matches)) = matches
    ]_vars

\* a player sat out the second match: the stored rating is still the one of
\* the first match, while the others have moved on
C17_Witness ==
    /\ Len(matches) = 2
    /\ Len(matches[1].playerResults) = 3
    /\ Len(matches[2].playerResults) = 2
    /\ \E n \in 1..Len(eloRatings) :
        /\ MatchesOf(matches, eloRatings[n].playerId, eloRatings[n].gameId) = {1}
        /\ eloRatings[n].rating = RowOf(matches[1], eloRatings[n].playerId).newRating
    /\ \E n \in 1..Len(eloRatings) :
        /\ MatchesOf(matches, eloRatings[n].playerId, eloRatings[n].gameId) = {1, 2}
        /\ eloRatings[n].rating # RowOf(matches[1], eloRatings[n].playerId).newRating

\* the messages of the three early returns of onSubmit
RejectionMessages ==
    {"at least 2 players", "duplicate names", "empty name",
     "position out of range", "must start from 1", "not contiguous",
     "player name format", "select a game"}

\* the step shows the toasts of a rejected submission
SubmissionRejected ==
    /\ toasts' # toasts
    /\ \E i \in 1..Len(toasts') :
        toasts'[i].type = "error" /\ toasts'[i].message \in RejectionMessages

\* C18: a submission that fails validation (an invalid result list, a badly
\* formed player name, no matching game) writes nothing to games, players,
\* matches and ratings, and does not call the engine
C18_RejectedWritesNothing ==
    [][SubmissionRejected => UNCHANGED <<storageVars, engineVars>>]_vars

\* a badly formed name was rejected after a match had been recorded
C18_Witness ==
    /\ toasts = <<ToastError("player name format")>>
    /\ Len(matches) = 1 /\ Len(eloRatings) >= 2

\* the list passes validateMatchResults and every name is well formed
WellFormed(list) ==
    /\ validateMatchResults(list).isValid
    /\ \A i \in 1..Len(list) : isValidPlayerName(list[i].playerName)

\* a stored game is the selection of the page and of the form's gameId field
GameSelected ==
    /\ selectedGame # Null
    /\ formGameId = selectedGame.id
    /\ \E i \in 1..Len(games) : games[i] = selectedGame

\* the step computes new ratings and records a match of the selected game
SubmissionSucceeded ==
    /\ MatchRecorded
    /\ pc' = "done"
    /\ LastMatch(matches').gameId = formGameId

\* C20: once a game has been created and selected in the running page, the
\* submission of a well-formed match result for it succeeds: new ratings are
\* computed and the match is recorded.
C20_SelectedGameAccepted ==
    [][(/\ GameSelected
        /\ \E list \in FormEntries : WellFormed(list) /\ SubmitMatch(formGameId, list))
       => SubmissionSucceeded]_vars

----------------------------------------------------------------------------
(* Properties of the page                                                  *)

\* C21: after a successful match submission for the game shown in the
\* leaderboard, the leaderboard still shows that game and its displayed
\* entries are the ones loaded from the ratings now stored for it.
C21_LeaderboardFollowsSubmission ==
    [][(MatchRecorded /\ LastMatch(matches').gameId = leaderboardGameId)
       => /\ leaderboardGameId' = leaderboardGameId
          /\ leaderboard' = loadLeaderboard(players', eloRatings', leaderboardGameId)]_vars

\* C22: the selection of the page is never a deleted game: selectedGame is
\* either undefined or a game that is stored.
C22_SelectionIsStored ==
    selectedGame = Null \/ \E i \in 1..Len(games) : games[i].id = selectedGame.id

\* C25: every stored match record and every stored rating record refers to
\* a game that is stored.
C25_RecordsReferToStoredGames ==
    LET Stored(gameId) == \E i \in 1..Len(games) : games[i].id = gameId
    IN  /\ \A m \in 1..Len(matches) : Stored(matches[m].gameId)
        /\ \A n \in 1..Len(eloRatings) : Stored(eloRatings[n].gameId)

----------------------------------------------------------------------------
(* Properties of the storage manager                                       *)

\* the collection kept under a key, among the four given
StoredUnder(key, gs, ps, ms, rs) ==
    CASE key = STORAGE_KEYS.GAMES -> gs
      [] key = STORAGE_KEYS.PLAYERS -> ps
      [] key = STORAGE_KEYS.MATCHES -> ms
      [] key = STORAGE_KEYS.ELO_RATINGS -> rs

\* C19: if a write of a collection to local storage fails, the value
\* persisted for that collection before the call is still the one persisted
\* after it, and no error reaches the caller of the StorageManager method.
C19_FailedWriteKeepsValue ==
    [][storageCall'.number # storageCall.number =>
          /\ ~storageCall'.thrown
          /\ \A i \in 1..Len(storageCall'.writes) :
                ~storageCall'.writes[i].accepted =>
                    StoredUnder(storageCall'.writes[i].key,
                                games', players', matches', eloRatings')
                    = StoredUnder(storageCall'.writes[i].key,
                                  games, players, matches, eloRatings)]_vars

\* a call has just failed to write a collection that holds records
C19_Witness ==
    \E i \in 1..Len(storageCall.writes) :
        /\ ~storageCall.writes[i].accepted
        /\ StoredUnder(storageCall.writes[i].key,
                       games, players, matches, eloRatings) # << >>

\* the step is a direct call of the method
Called(method) ==
    storageCall'.number # storageCall.number /\ storageCall'.method = method

\* the latest call attempted a write of the key, and it was accepted / refused
WriteAccepted(call, key) ==
    \E i \in 1..Len(call.writes) : call.writes[i].key = key /\ call.writes[i].accepted

WriteRefused(call, key) ==
    \E i \in 1..Len(call.writes) : call.writes[i].key = key /\ ~call.writes[i].accepted

\* the games other than g, and the records of the games other than g
OtherGames(gs, g) == LET Keep(x) == x.id # g IN SelectSeq(gs, Keep)

OfOtherGames(list, g) == LET Keep(x) == x.gameId # g IN SelectSeq(list, Keep)

\* C23 as stated: deleteGame(g) for a stored game returns true and leaves no
\* game, match or rating of g, with players and everything of the other
\* games unchanged; for another id it returns false and changes nothing.
C23_DeleteGameFrame ==
    [][Called("deleteGame") =>
        LET g == storageCall'.args.gameId
        IN  IF \E i \in 1..Len(games) : games[i].id = g
            THEN /\ storageCall'.returned = [ok |-> TRUE]
                 /\ games' = OtherGames(games, g)
                 /\ matches' = OfOtherGames(matches, g)
                 /\ eloRatings' = OfOtherGames(eloRatings, g)
                 /\ players' = players
            ELSE /\ storageCall'.returned = [ok |-> FALSE]
                 /\ UNCHANGED storageVars]_vars

\* C23, amended: deleteGame(g) for a stored game returns true and attempts
\* three writes, of the games, the matches and the ratings; each write that
\* local storage accepts leaves that collection without the records of g and
\* with those of the other games unchanged, each write it refuses leaves the
\* collection as it was; players are untouched.  For another id it returns
\* false, writes nothing and changes nothing.
C23_DeleteGameWrites ==
    [][Called("deleteGame") =>
        LET g == storageCall'.args.gameId
            call == storageCall'
        IN  IF \E i \in 1..Len(games) : games[i].id = g
            THEN /\ call.returned = [ok |-> TRUE]
                 /\ Len(call.writes) = 3
                 /\ WriteAccepted(call, STORAGE_KEYS.GAMES) => games' = OtherGames(games, g)
                 /\ WriteRefused(call, STORAGE_KEYS.GAMES) => games' = games
                 /\ WriteAccepted(call, STORAGE_KEYS.MATCHES)
                        => matches' = OfOtherGames(matches, g)
                 /\ WriteRefused(call, STORAGE_KEYS.MATCHES) => matches' = matches
                 /\ WriteAccepted(call, STORAGE_KEYS.ELO_RATINGS)
                        => eloRatings' = OfOtherGames(eloRatings, g)
                 /\ WriteRefused(call, STORAGE_KEYS.ELO_RATINGS) => eloRatings' = eloRatings
                 /\ players' = players
            ELSE /\ call.returned = [ok |-> FALSE]
                 /\ call.writes = << >>
                 /\ UNCHANGED storageVars]_vars

\* a game has just been deleted with all three writes accepted, and another
\* game with its match and its ratings is still stored
C23_Witness ==
    /\ storageCall.method = "deleteGame"
    /\ storageCall.returned = [ok |-> TRUE]
    /\ \A i \in 1..Len(storageCall.writes) : storageCall.writes[i].accepted
    /\ Len(games) >= 1 /\ Len(matches) >= 1 /\ Len(eloRatings) >= 2
    /\ \A i \in 1..Len(games) : games[i].id # storageCall.args.gameId

\* C26: no two stored players have names that are equal ignoring case, and
\* addPlayer with a name that matches a stored player's name ignoring case
\* returns that player and leaves the players collection unchanged.
C26_PlayerNamesUnique ==
    [][/\ \A i, j \in 1..Len(players') :
            i # j => ToLowerCase(players'[i].name) # ToLowerCase(players'[j].name)
       /\ Called("addPlayer") =>
            \A i \in 1..Len(players) :
                ToLowerCase(players[i].name) = ToLowerCase(storageCall'.args.name)
                    => storageCall'.returned = players[i] /\ players' = players]_vars

\* at most one rating record per (playerId, gameId) pair
OneRecordPerPair(rs) ==
    \A i, j \in 1..Len(rs) :
        (rs[i].playerId = rs[j].playerId /\ rs[i].gameId = rs[j].gameId) => i = j

\* the record carries the pair and the fields of the updates
Updated(record, args) ==
    /\ record.playerId = args.playerId /\ record.gameId = args.gameId
    /\ record.rating = args.updates.rating
    /\ record.gamesPlayed = args.updates.gamesPlayed
    /\ record.wins = args.updates.wins
    /\ record.losses = args.updates.losses
    /\ record.draws = args.updates.draws

\* rs becomes after: an existing record of the pair is the only record
\* changed, a new pair gets exactly one record, appended
PairUpdated(rs, after, args) ==
    LET existing == {i \in 1..Len(rs) : rs[i].playerId = args.playerId
                                          /\ rs[i].gameId = args.gameId}
    IN  IF existing # {}
        THEN /\ Len(after) = Len(rs)
             /\ \A i \in 1..Len(rs) :
                    IF i \in existing THEN Updated(after[i], args) ELSE after[i] = rs[i]
        ELSE /\ Len(after) = Len(rs) + 1
             /\ SubSeq(after, 1, Len(rs)) = rs
             /\ Updated(after[Len(after)], args)

\* C27 as stated: the ratings hold at most one record per (playerId, gameId)
\* pair, and updatePlayerRating changes only the record of an existing pair
\* and appends exactly one record for a new pair.
C27_OneRatingPerPair ==
    [][/\ OneRecordPerPair(eloRatings')
       /\ Called("updatePlayerRating") =>
            PairUpdated(eloRatings, eloRatings', storageCall'.args)]_vars

\* C27, amended: the ratings hold at most one record per (playerId, gameId)
\* pair; an updatePlayerRating whose write local storage accepts changes
\* only the record of an existing pair and appends exactly one record for a
\* new pair; one whose write is refused leaves the ratings as they were.
C27_OneRatingPerPairWritten ==
    [][/\ OneRecordPerPair(eloRatings')
       /\ Called("updatePlayerRating") =>
            IF WriteAccepted(storageCall', STORAGE_KEYS.ELO_RATINGS)
            THEN PairUpdated(eloRatings, eloRatings', storageCall'.args)
            ELSE eloRatings' = eloRatings]_vars

\* the rating record of the first player in the first game has just been
\* overwritten, next to the record of the second player
C27_Witness ==
    /\ storageCall.method = "updatePlayerRating"
    /\ WriteAccepted(storageCall, STORAGE_KEYS.ELO_RATINGS)
    /\ storageCall.args.playerId = 1 /\ storageCall.args.gameId = 1
    /\ Len(eloRatings) = 2
    /\ eloRatings[1].playerId = 1 /\ eloRatings[1].rating = 1484
    /\ eloRatings[2].playerId = 2

====
